---- MODULE Spec2Model ----
(***************************************************************************)
(* CLIA plan execution engine: the typed tool registry and its dispatch    *)
(* (clia/agents/tool_router.py), plan validation and the round-based       *)
(* parallel DAG executor (clia/agents/llm_compiler_agent.py), and the      *)
(* beam search over a tree of thoughts (clia/agents/tot_agent.py).         *)
(***************************************************************************)
EXTENDS Integers, Sequences, FiniteSets, TLC

VARIABLES
    \* ---- tool dispatch (run_tool) ----
    tool_name,      \* first argument of run_tool
    kwargs,         \* keyword arguments of run_tool
    rt_pc,          \* "call" before run_tool runs, "done" after
    rt_outcome,     \* what run_tool did: raised a ValueError, returned, or the handler raised
    handler_calls,  \* sequence of the handler invocations made, each with its merged arguments
    \* ---- plan validation and DAG executor ----
    plan,           \* List[Dict]: the plan
    pc,             \* position of the coordinating thread: "planning" (llm_compiler_agent
                    \* before the planning call), "validate" (before _validate_plan), "loop"
                    \* (head of the round loop), "await" (inside the with-block of a round),
                    \* "phase3" (the executor has returned to the agent), "returned"
    plan_valid,     \* value returned by _validate_plan: "True" or "False" ("unset" before the call)
    answer,         \* value returned by llm_compiler_agent ("unset" while running)
    results,        \* Dict[str, str]: step id -> result
    completed,      \* Set[str]
    round_num,      \* int
    pending,        \* futures submitted in the current round whose worker has not finished
    finished,       \* futures whose worker has finished, not yet yielded by as_completed: id -> result
    round_of,       \* history: step id -> round in which it was submitted
    result_writes,  \* history: step id -> number of assignments results[id] = ... made
    run_tool_calls, \* history: ids of the steps for which _execute_step called run_tool
    llm_calls,      \* history: the calls llm_compiler_agent made to the collaborator, each
                    \* with its purpose and whether it returned (ok) or raised
    \* ---- tree of thoughts (tot_agent) ----
    max_depth,              \* parameters of tot_agent
    branching_factor,
    beam_width,
    tot_pc,                 \* "generate" (the generation calls of a level), "evaluate" (the loop
                            \* over new_thoughts), "synthesize" (_search_tree has returned),
                            \* "returned"
    depth,                  \* the loop variable of _search_tree
    expand_idx,             \* position, in the frontier, of the next thought to expand
    new_thoughts,           \* thoughts of the current level not yet evaluated
    evaluated_thoughts,     \* thoughts of the current level already evaluated
    all_thoughts,           \* List[Thought]
    current_level_thoughts, \* the last level evaluated, sorted
    final_thoughts,         \* second component of the value returned by _search_tree
    tot_answer,             \* value returned by _synthesize_answer
    uuid_next,              \* the next value uuid4() gives (values are never repeated)
    actions_given,          \* number of thoughts generated with an action so far
    last_eval,              \* history: "usable" or "unusable", the reply to the last evaluation call
    gen_log,                \* history: the generation calls made: depth, id of the thought
                            \* expanded and its position in all_thoughts (0: none),
                            \* failed or not, number of thoughts returned
    retained,               \* history: per finished level, the frontier retained
    tool_dispatches,        \* history: the calls of run_tool for the action of a thought:
                            \* the id of the thought and the string the call gave
    synth_calls,            \* history: the synthesis calls made by _synthesize_answer, each
                            \* TRUE if it returned, FALSE if it raised
    \* ---- plan extraction (_extract_plan) ----
    response,       \* the argument of _extract_plan
    extract_pc,     \* "call" before _extract_plan runs, "done" after
    extracted,      \* the plan returned
    \* ---- MemoryManager (memory.py) ----
    max_memories,           \* self.max_memories
    enable_summarization,   \* self.enable_summarization
    summary_threshold,      \* self.summary_threshold
    memories,               \* self.memories
    memory_file,            \* the entries in the file at memory_path
    mem_added,              \* the number of different conversations given to add_memory
    last_add                \* history: what the last call of add_memory did

toolVars == <<tool_name, kwargs, rt_pc, rt_outcome, handler_calls>>
dagVars  == <<plan, pc, plan_valid, answer, results, completed, round_num,
              pending, finished, round_of, result_writes, run_tool_calls, llm_calls>>
totVars  == <<max_depth, branching_factor, beam_width, tot_pc, depth, expand_idx,
              new_thoughts, evaluated_thoughts, all_thoughts, current_level_thoughts,
              final_thoughts, tot_answer, uuid_next, actions_given, last_eval, gen_log,
              retained, tool_dispatches, synth_calls>>
extractVars == <<response, extract_pc, extracted>>
memVars  == <<max_memories, enable_summarization, summary_threshold, memories, memory_file,
              mem_added, last_add>>
vars     == <<toolVars, dagVars, totVars, extractVars, memVars>>

(***************************************************************************)
(* Bounds                                                                  *)
(***************************************************************************)
MaxArgs    == 2   \* largest number of keyword arguments supplied to run_tool
MaxDeps    == 2   \* largest number of dependencies of one step
MaxDepth   == 2   \* largest max_depth of a beam search
MaxBranch  == 3   \* largest branching_factor
MaxBeam    == 2   \* largest beam_width
MaxGen     == 3   \* largest number of thoughts in one reply of the generation collaborator
MaxActions == 1   \* largest number of thoughts of one search that carry an action
MaxTokens  == 5   \* largest number of tokens of a response given to _extract_plan
DeepDepth  == 3   \* max_depth of the searches that are followed below depth 1
MaxMemories  == 12  \* largest max_memories of a MemoryManager
MaxThreshold == 13  \* largest summary_threshold of a MemoryManager
MaxAdds      == 14  \* largest number of different conversations given to add_memory

(***************************************************************************)
(* Python values.  Argument validation looks only at the runtime type of a *)
(* value, so a value is represented by the name of its type.               *)
(***************************************************************************)
PyValues == {"str", "int", "float", "bool", "NoneType"}

\* isinstance(value, expected) where expected is a type or a tuple of types
\* (given as a set of type names); bool is a subclass of int.
IsInstance(value, expected) ==
    \/ value \in expected
    \/ value = "bool" /\ "int" \in expected

\* A dict as a function; {**d1, **d2}: d2 wins on common keys.
EmptyDict == [k \in {} |-> "x"]

DictMerge(d1, d2) ==
    [k \in (DOMAIN d1) \cup (DOMAIN d2) |-> IF k \in DOMAIN d2 THEN d2[k] ELSE d1[k]]

(***************************************************************************)
(* TOOLS registry: the tools read_file, shell and echo.                    *)
(* args: declared argument names; required; defaults; arg_types.           *)
(***************************************************************************)
TOOLS ==
    [ read_file |->
        [ args      |-> {"path_str", "max_chars"},
          required  |-> {"path_str"},
          defaults  |-> [max_chars |-> "int"],
          arg_types |-> [path_str |-> {"str"}, max_chars |-> {"int"}] ],
      shell |->
        [ args      |-> {"command", "timeout", "cwd"},
          required  |-> {"command"},
          defaults  |-> [timeout |-> "float", cwd |-> "NoneType"],
          arg_types |-> [command |-> {"str"}, timeout |-> {"int", "float"},
                         cwd |-> {"str", "NoneType"}] ],
      echo |->
        [ args      |-> {"text"},
          required  |-> {"text"},
          defaults  |-> EmptyDict,
          arg_types |-> [text |-> {"str"}] ] ]

ToolNames == DOMAIN TOOLS

\* _validate_args: (merged, unknown | missing)
ValidateArgs(tool, kw) ==
    LET unknown == (DOMAIN kw) \ tool.args
        merged  == DictMerge(tool.defaults, kw)
        missing == tool.required \ (DOMAIN merged)
    IN  [merged |-> merged, invalid_names |-> unknown \cup missing]

\* the test made on one key of arg_types by _validate_types
TypeInvalid(value, expected) ==
    IF value = "NoneType" THEN FALSE ELSE ~IsInstance(value, expected)

\* _validate_types: the keys of arg_types present in kw whose value fails the test
ValidateTypes(tool, kw) ==
    {key \in DOMAIN tool.arg_types : key \in DOMAIN kw /\ TypeInvalid(kw[key], tool.arg_types[key])}

\* What the handlers of the registry can do with the merged arguments:
\*   echo      -> tools.echo_safe: len(text) raises TypeError unless text is a str
\*   read_file -> tools.read_file_safe: Path(path_str) raises TypeError unless
\*                path_str is a str; otherwise returns the content or a
\*                bracketed message, or open()/read() raises
\*   shell     -> tools.shell_exec: every exception is caught, always returns
HandlerOutcomes(name, merged) ==
    CASE name = "echo"      -> IF merged["text"] = "str" THEN {"return"} ELSE {"raise"}
      [] name = "read_file" -> IF merged["path_str"] = "str" THEN {"return", "raise"} ELSE {"raise"}
      [] name = "shell"     -> {"return"}

HandlerCallCaught(h) == "return"

\* line 168, "return tool.handler(**merged)": what run_tool does when the
\* handler does h; the call is in no try block
HandlerCall(h) == h

\* run_tool: the set of possible outcomes of one call.
\*   kind "ValueError": raised before any handler call, with the message's parts
\*   kind "return":     run_tool returned a string
\*   kind "raise":      run_tool raised the exception of the handler
\*   handler:           what the handler did ("none": it was not called)
RunTool(name, kw) ==
    IF name \notin ToolNames
    THEN {[kind |-> "ValueError", msg |-> "Unknown tool", keys |-> {}, invoked |-> FALSE,
           merged |-> EmptyDict, handler |-> "none"]}
    ELSE LET tool == TOOLS[name]
             va   == ValidateArgs(tool, kw)
             invalid_types == ValidateTypes(tool, va.merged)
         IN  IF va.invalid_names # {}
             THEN {[kind |-> "ValueError", msg |-> "Invalid or missing arguments",
                    keys |-> va.invalid_names, invoked |-> FALSE, merged |-> EmptyDict,
                    handler |-> "none"]}
             ELSE IF invalid_types # {}
             THEN {[kind |-> "ValueError", msg |-> "Invalid argument types",
                    keys |-> invalid_types, invoked |-> FALSE, merged |-> EmptyDict,
                    handler |-> "none"]}
             ELSE {[kind |-> HandlerCall(h), msg |-> "handler", keys |-> {}, invoked |-> TRUE,
                    merged |-> va.merged, handler |-> h] : h \in HandlerOutcomes(name, va.merged)}

(***************************************************************************)
(* Inputs of run_tool                                                      *)
(***************************************************************************)
CallNames == ToolNames \cup {"no_such_tool"}
ArgKeys   == {"path_str", "max_chars", "command", "timeout", "cwd", "text", "extra"}

KwargsDomain ==
    UNION {[ks -> PyValues] : ks \in {s \in SUBSET ArgKeys : Cardinality(s) <= MaxArgs}}

NoOutcome ==
    [kind |-> "unset", msg |-> "", keys |-> {}, invoked |-> FALSE, merged |-> EmptyDict,
     handler |-> "none"]

ToolInit ==
    /\ tool_name \in CallNames
    /\ kwargs \in KwargsDomain
    /\ rt_pc = "call"
    /\ rt_outcome = NoOutcome
    /\ handler_calls = <<>>

ToolIdle ==
    /\ tool_name = "echo"
    /\ kwargs = EmptyDict
    /\ rt_pc = "idle"
    /\ rt_outcome = NoOutcome
    /\ handler_calls = <<>>

\* one call run_tool(tool_name, **kwargs)
RunToolCall ==
    /\ rt_pc = "call"
    /\ \E o \in RunTool(tool_name, kwargs) :
         /\ rt_outcome' = o
         /\ handler_calls' = IF o.invoked
                             THEN Append(handler_calls, [tool |-> tool_name, args |-> o.merged])
                             ELSE handler_calls
    /\ rt_pc' = "done"
    /\ UNCHANGED <<tool_name, kwargs, dagVars, totVars, extractVars, memVars>>

(***************************************************************************)
(* Plans.  A step is a dict with the keys id, dependencies, action, tool   *)
(* and args; "None" stands for an absent action or tool.                   *)
(***************************************************************************)
IdDomain == {"", "a", "b", "c"}     \* step ids; "" is the empty string
IdOrder  == <<"", "a", "b", "c">>    \* order in which the steps are listed in a plan

\* id sets of the plans explored: an id of IdDomain that a plan does not
\* use is, for that plan, an id that no step has
PlanIdSets ==
    {s \in SUBSET IdDomain : s # {} /\ (s \subseteq {"a", "b", "c"} \/ s \subseteq {"", "a", "b"})}

DepSets(n) == {d \in SUBSET IdDomain : Cardinality(d) <= n}

CallFinal    == [action |-> "final", tool |-> "None",         args |-> EmptyDict]
CallEcho     == [action |-> "None",  tool |-> "echo",         args |-> [text |-> "str"]]
CallReadFile == [action |-> "None",  tool |-> "read_file",    args |-> [path_str |-> "str"]]
CallUnknown  == [action |-> "None",  tool |-> "no_such_tool", args |-> EmptyDict]
CallBadArgs  == [action |-> "None",  tool |-> "echo",         args |-> EmptyDict]
CallNoTool   == [action |-> "None",  tool |-> "None",         args |-> EmptyDict]
\* a Final step that carries the fields of a tool step as well
CallFinalTool == [action |-> "final", tool |-> "read_file",   args |-> [path_str |-> "str"]]

MkStep(i, d, c) ==
    [id |-> i, dependencies |-> d, action |-> c.action, tool |-> c.tool, args |-> c.args]

\* the ids of s in the order of IdOrder
IdSeq(s) == SelectSeq(IdOrder, LAMBDA i : i \in s)

\* the plan over the ids of ord whose k-th step has the dependencies and the call f[k]
MkPlan(ord, f) == [k \in 1..Len(ord) |-> MkStep(ord[k], f[k].d, f[k].c)]

\* calls of the plans that explore every dependency shape
ShapeCalls == {CallFinal, CallEcho}
\* calls of the plans that explore every kind of step outcome
OutcomeCalls == {CallFinal, CallReadFile, CallUnknown, CallBadArgs, CallNoTool, CallFinalTool}

\* plan is one of the plans explored: every dependency shape (up to MaxDeps
\* dependencies per step) with plain steps, and every kind of step outcome
\* on the shapes with at most one dependency per step
PlanInitOver(idsets) ==
    \E s \in idsets :
        \/ \E f \in [1..Cardinality(s) -> [d : DepSets(MaxDeps), c : ShapeCalls]] :
              plan = MkPlan(IdSeq(s), f)
        \/ /\ "" \notin s
           /\ \E f \in [1..Cardinality(s) -> [d : DepSets(1), c : OutcomeCalls]] :
                plan = MkPlan(IdSeq(s), f)

StepIds(p) == {p[k].id : k \in 1..Len(p)}

(***************************************************************************)
(* _validate_plan                                                          *)
(***************************************************************************)
\* Python truthiness of a step id
Truthy(step_id) == step_id # ""

\* lines 101-115: the loop over the steps.  Returns ok = FALSE at the first
\* step (with a truthy id) that lists a dependency not in ids.
RECURSIVE BuildGraph(_, _, _, _)
BuildGraph(p, k, ids, graph) ==
    IF k > Len(p) THEN [ok |-> TRUE, graph |-> graph]
    ELSE LET step == p[k]
         IN  IF ~Truthy(step.id) THEN BuildGraph(p, k + 1, ids, graph)
             ELSE IF \E dep \in step.dependencies : dep \notin ids
                  THEN [ok |-> FALSE, graph |-> graph]
                  ELSE BuildGraph(p, k + 1, ids,
                                  [graph EXCEPT ![step.id] = step.dependencies])

\* graph.get(node, set())
GraphGet(graph, node) == IF node \in DOMAIN graph THEN graph[node] ELSE {}

\* line 134: rec_stack.remove(node) once every dependency of node is explored
PopStackKeep(r, node) == r

PopStack(r, node) == [r EXCEPT !.rec_stack = r.rec_stack \ {node}]

\* has_cycle (lines 121-135) with the sets visited and rec_stack threaded
\* through: st = [found, visited, rec_stack]
RECURSIVE has_cycle(_, _, _)
RECURSIVE has_cycle_deps(_, _, _)
has_cycle(node, graph, st) ==
    IF node \in st.rec_stack THEN [st EXCEPT !.found = TRUE]
    ELSE IF node \in st.visited THEN [st EXCEPT !.found = FALSE]
    ELSE LET st1 == [found |-> FALSE,
                     visited |-> st.visited \cup {node},
                     rec_stack |-> st.rec_stack \cup {node}]
             r   == has_cycle_deps(GraphGet(graph, node), graph, st1)
         IN  IF r.found THEN r
             ELSE PopStack(r, node)

\* the loop "for dep in graph.get(node, set())" of has_cycle
has_cycle_deps(deps, graph, st) ==
    IF deps = {} THEN [st EXCEPT !.found = FALSE]
    ELSE LET dep == CHOOSE d \in deps : TRUE
             r   == has_cycle(dep, graph, st)
         IN  IF r.found THEN r
             ELSE has_cycle_deps(deps \ {dep}, graph, r)

\* lines 137-141: the loop over the nodes of graph
RECURSIVE CycleLoop(_, _, _)
CycleLoop(nodes, graph, st) ==
    IF nodes = {} THEN FALSE
    ELSE LET node_id == CHOOSE n \in nodes : TRUE
         IN  IF node_id \in st.visited THEN CycleLoop(nodes \ {node_id}, graph, st)
             ELSE LET r == has_cycle(node_id, graph, st)
                  IN  IF r.found THEN TRUE
                      ELSE CycleLoop(nodes \ {node_id}, graph, r)

\* _validate_plan(plan) -> bool
ValidatePlan(p) ==
    LET ids == StepIds(p)
        g0  == [i \in ids |-> {}]
        b   == BuildGraph(p, 1, ids, g0)
    IN  IF ~b.ok THEN FALSE
        ELSE ~CycleLoop(DOMAIN b.graph, b.graph,
                        [found |-> FALSE, visited |-> {}, rec_stack |-> {}])

(***************************************************************************)
(* _execute_step and _execute_plan_parallel                                *)
(***************************************************************************)
\* a result string: which message it is, for which step, and the text of
\* the exception it embeds (if any)
Result(kind, step_id, detail) == [kind |-> kind, step |-> step_id, detail |-> detail]

\* _execute_step(step, results): the possible (step_id, result) outcomes
ExecuteStep(step) ==
    IF step.action = "final" THEN {Result("answer", step.id, "")}
    ELSE IF step.tool = "None" THEN {Result("Error: No tool specified", step.id, "")}
    ELSE IF step.tool \notin ToolNames THEN {Result("Error: Unknown tool", step.id, "")}
    ELSE {IF o.kind = "return" THEN Result("tool result", step.id, "")
                               ELSE Result("Error executing", step.id, o.msg)
            : o \in RunTool(step.tool, step.args)}

CallsRunToolBeforeFinal(step) == step.tool \in ToolNames

\* _execute_step reaches the call of run_tool (line 245): the step is not a
\* Final step (lines 230-232) and names a registered tool (lines 235-240)
CallsRunTool(step) ==
    /\ step.action # "final"
    /\ step.tool # "None"
    /\ step.tool \in ToolNames

ExecuteStepReadingResults(step, res) ==
    IF DOMAIN res # {} /\ step.action # "final"
    THEN {Result("Error executing", step.id, "")}
    ELSE ExecuteStep(step)

\* the call _execute_step(step, results) of line 296: the worker is handed
\* the result map and makes no use of it
ExecuteStepWith(step, res) == ExecuteStep(step)

\* the write counts after one more assignment to the entry of each id of ids
WritesAfter(w, ids) ==
    [i \in (DOMAIN w) \cup ids |->
        IF i \in ids THEN (IF i \in DOMAIN w THEN w[i] + 1 ELSE 1) ELSE w[i]]

\* step_map: id -> step (a later step wins over an earlier one with the same id)
StepMap(p) ==
    [i \in StepIds(p) |->
        p[CHOOSE k \in 1..Len(p) : p[k].id = i /\ \A j \in (k+1)..Len(p) : p[j].id # i]]

\* the while condition of the round loop, with max_rounds = len(plan) * 2
LoopCond == Cardinality(completed) < Cardinality(DOMAIN StepMap(plan)) /\ round_num < Len(plan) * 2

ReadyStepsWithCompleted ==
    {i \in DOMAIN StepMap(plan) : StepMap(plan)[i].dependencies \subseteq completed}

ReadyStepsIgnoringDeps ==
    {i \in DOMAIN StepMap(plan) : i \notin completed}

\* ready_steps (as ids): not completed and all dependencies completed
ReadySteps ==
    {i \in DOMAIN StepMap(plan) : i \notin completed /\ StepMap(plan)[i].dependencies \subseteq completed}

StuckNever == FALSE

\* line 285: "if not ready_steps" (then break)
Stuck == ReadySteps = {}

FillRemainingSkipped(res) == res

\* lines 306-311: the entries added after the loop
FillRemaining(res) ==
    LET remaining == (DOMAIN StepMap(plan)) \ completed
    IN  [i \in (DOMAIN res) \cup remaining |->
            IF i \in DOMAIN res THEN res[i] ELSE Result("Error: not executed", i, "")]

BatchDoneEarly == TRUE

\* the with-block of a round is left when every future has been yielded
BatchDone == pending = {} /\ DOMAIN finished = {}

\* a value returned by llm_compiler_agent: which message it is, the step
\* ids whose results it lists, the step whose answer it starts with
\* ("None": no step)
NoAnswer == [text |-> "unset", ids |-> {}, base |-> "None"]

NoResults == [i \in {} |-> Result("", "", "")]

\* llm_compiler_agent is at one of the positions pcs, for a response of the
\* planning call that holds plan ("planning", "validate"), or
\* _execute_plan_parallel is called on plan ("loop")
DagInitOver(idsets, pcs) ==
    /\ PlanInitOver(idsets)
    /\ pc \in pcs
    /\ plan_valid = "unset"
    /\ answer = NoAnswer
    /\ results = NoResults
    /\ completed = {}
    /\ round_num = 0
    /\ pending = {}
    /\ finished = NoResults
    /\ round_of = [i \in {} |-> 0]
    /\ result_writes = [i \in {} |-> 0]
    /\ run_tool_calls = {}
    /\ llm_calls = <<>>

DagIdle ==
    /\ plan = <<>>
    /\ pc = "idle"
    /\ plan_valid = "unset"
    /\ answer = NoAnswer
    /\ results = NoResults
    /\ completed = {}
    /\ round_num = 0
    /\ pending = {}
    /\ finished = NoResults
    /\ round_of = [i \in {} |-> 0]
    /\ result_writes = [i \in {} |-> 0]
    /\ run_tool_calls = {}
    /\ llm_calls = <<>>

\* line 383: the string returned when the planning call raises
PlanningErrorAnswer ==
    [text |-> "Error: Failed to get plan from LLM", ids |-> {}, base |-> "None"]

AfterPlanningAlwaysValidate(ok) == "validate"

\* lines 381-388: where the agent goes after the planning call
AfterPlanning(ok) == IF ok THEN "validate" ELSE "returned"

\* llm_compiler_agent lines 367-383: the planning call returns a response,
\* or raises
AgentPlan ==
    /\ pc = "planning"
    /\ \E ok \in BOOLEAN :
         /\ llm_calls' = Append(llm_calls, [purpose |-> "planning", ok |-> ok,
                                             ids |-> {}, base |-> "None"])
         /\ pc' = AfterPlanning(ok)
         /\ answer' = IF pc' = "returned" THEN PlanningErrorAnswer ELSE answer
    /\ UNCHANGED <<plan, plan_valid, results, completed, round_num, pending, finished, round_of,
                   result_writes, run_tool_calls, toolVars, totVars, extractVars, memVars>>

\* line 393: the string returned for an invalid plan; ids: the step ids
\* the message names (the literal has no placeholder)
InvalidPlanAnswer == [text |-> "Error: Generated plan is invalid", ids |-> {}, base |-> "None"]

\* the bool returned by _validate_plan, as stored in plan_valid
PyBool(b) == IF b THEN "True" ELSE "False"

\* lines 391-405: where the agent goes after validation
AfterValidateAlwaysRun(valid) == "loop"

AfterValidate(valid) == IF valid THEN "loop" ELSE "returned"

\* llm_compiler_agent lines 388-393: validate the extracted plan
AgentValidate ==
    /\ pc = "validate"
    /\ plan_valid' = PyBool(ValidatePlan(plan))
    /\ pc' = AfterValidate(plan_valid' = "True")
    /\ answer' = IF plan_valid' = "True" THEN answer ELSE InvalidPlanAnswer
    /\ UNCHANGED <<plan, results, completed, round_num, pending, finished, round_of, llm_calls,
                   result_writes, run_tool_calls, toolVars, totVars, extractVars, memVars>>

\* lines 272-298: one pass of the loop head that finds ready steps and submits them
StartRound ==
    /\ pc = "loop"
    /\ LoopCond
    /\ ~Stuck
    /\ round_num' = round_num + 1
    /\ pending' = ReadySteps
    /\ round_of' = [i \in (DOMAIN round_of) \cup ReadySteps |->
                        IF i \in ReadySteps THEN round_num + 1 ELSE round_of[i]]
    /\ pc' = "await"
    /\ UNCHANGED <<plan, plan_valid, answer, results, completed, finished, llm_calls,
                   result_writes, run_tool_calls, toolVars, totVars, extractVars, memVars>>

\* lines 272, 285-289, 306-313: the loop ends (condition false, or no ready
\* step: break), the remaining steps get their entry, the function returns
ExitLoop ==
    /\ pc = "loop"
    /\ ~LoopCond \/ Stuck
    /\ round_num' = IF LoopCond THEN round_num + 1 ELSE round_num
    /\ results' = FillRemaining(results)
    /\ result_writes' = WritesAfter(result_writes, (DOMAIN FillRemaining(results)) \ DOMAIN results)
    /\ pc' = IF plan_valid = "True" THEN "phase3" ELSE "returned"
    /\ UNCHANGED <<plan, plan_valid, answer, completed, pending, finished, round_of, llm_calls,
                   run_tool_calls, toolVars, totVars, extractVars, memVars>>

\* a pool worker runs _execute_step for a submitted step (the pool has
\* min(len(ready_steps), 10) workers: one per step for the plans explored)
WorkerRun(i) ==
    /\ pc = "await"
    /\ i \in pending
    /\ \E r \in ExecuteStepWith(StepMap(plan)[i], results) :
         finished' = (i :> r) @@ finished
    /\ pending' = pending \ {i}
    /\ run_tool_calls' = IF CallsRunTool(StepMap(plan)[i]) THEN run_tool_calls \cup {i}
                         ELSE run_tool_calls
    /\ UNCHANGED <<plan, pc, plan_valid, answer, results, completed, round_num, round_of, llm_calls,
                   result_writes, toolVars, totVars, extractVars, memVars>>

IsErrorResult(r) ==
    r.kind \in {"Error: No tool specified", "Error: Unknown tool", "Error executing"}

CompletedAfterSuccessOnly(r) == IF IsErrorResult(r) THEN completed ELSE completed \cup {r.step}

\* line 303: completed.add(step_id)
CompletedAfter(r) == completed \cup {r.step}

\* lines 300-303: as_completed yields a finished future
Collect(i) ==
    /\ pc = "await"
    /\ i \in DOMAIN finished
    /\ results' = (finished[i].step :> finished[i]) @@ results
    /\ result_writes' = WritesAfter(result_writes, {finished[i].step})
    /\ completed' = CompletedAfter(finished[i])
    /\ finished' = [j \in (DOMAIN finished) \ {i} |-> finished[j]]
    /\ UNCHANGED <<plan, pc, plan_valid, answer, round_num, pending, round_of, llm_calls,
                   run_tool_calls, toolVars, totVars, extractVars, memVars>>

\* line 294: the with-block ends, back to the loop head
EndRound ==
    /\ pc = "await"
    /\ BatchDone
    /\ pc' = "loop"
    /\ UNCHANGED <<plan, plan_valid, answer, results, completed, round_num, pending, finished,
                   round_of, llm_calls, result_writes, run_tool_calls,
                   toolVars, totVars, extractVars, memVars>>

(***************************************************************************)
(* llm_compiler_agent, phase 3: the final answer                           *)
(***************************************************************************)
\* line 416: the steps of the plan with action "final", in plan order
FinalSteps(p) == SelectSeq(p, LAMBDA step : step.action = "final")

\* line 425: the keys of tool_results
ToolResultIds(p, res) == (DOMAIN res) \ {FinalSteps(p)[1].id}

\* a synthesis call is made: lines 427 and 473
SynthesisNeeded(p, res) ==
    IF FinalSteps(p) # <<>> THEN ToolResultIds(p, res) # {} ELSE TRUE

SynthesisReplyAnswer == [text |-> "synthesis reply", ids |-> {}, base |-> "None"]

\* line 471: the answer of the first Final step, alone
BaseAnswer(p) == [text |-> "base answer", ids |-> {}, base |-> FinalSteps(p)[1].id]

SynthesisFailureAborts(p, res) == [text |-> "synthesis error", ids |-> {}, base |-> "None"]

\* lines 465-468 and 510-512: the answer built when the synthesis call raises
SynthesisFailureAnswer(p, res) ==
    IF FinalSteps(p) # <<>>
    THEN [text |-> "base answer + Tool Results", ids |-> ToolResultIds(p, res),
          base |-> FinalSteps(p)[1].id]
    ELSE [text |-> "Tool execution completed but failed to generate final answer",
          ids |-> DOMAIN res, base |-> "None"]

\* lines 429-447 and 477-495: the synthesis call; ids: the steps whose
\* results are in the prompt, base: the step whose answer is its 'Initial
\* Answer' ("None": the prompt has none)
SynthesisCall(p, res, ok) ==
    [purpose |-> "synthesis", ok |-> ok,
     ids  |-> IF FinalSteps(p) # <<>> THEN ToolResultIds(p, res) ELSE DOMAIN res,
     base |-> IF FinalSteps(p) # <<>> THEN FinalSteps(p)[1].id ELSE "None"]

\* llm_compiler_agent lines 416-512: the final answer, from the Final step
\* and the results, with a synthesis call when there are results to merge
AgentPhase3 ==
    /\ pc = "phase3"
    /\ IF SynthesisNeeded(plan, results)
       THEN \E ok \in BOOLEAN :
              /\ llm_calls' = Append(llm_calls, SynthesisCall(plan, results, ok))
              /\ answer' = IF ok THEN SynthesisReplyAnswer
                                 ELSE SynthesisFailureAnswer(plan, results)
       ELSE /\ answer' = BaseAnswer(plan)
            /\ UNCHANGED llm_calls
    /\ pc' = "returned"
    /\ UNCHANGED <<plan, plan_valid, results, completed, round_num, pending, finished, round_of,
                   result_writes, run_tool_calls, toolVars, totVars, extractVars, memVars>>

(***************************************************************************)
(* Tree of thoughts: Thought, _generate_thoughts, _evaluate_thought,       *)
(* _execute_thought_action, _search_tree, _synthesize_answer.              *)
(* A score is kept in tenths (0.5 is 5).                                   *)
(***************************************************************************)
\* the first n elements of the list s: s[:n] for n >= 0
Take(s, n) == SubSeq(s, 1, IF n < Len(s) THEN n ELSE Len(s))

\* parent_id None
NoId == [kind |-> "None", depth |-> 0, i |-> 0, uuid |-> 0]

\* f"thought_{depth}_{i}_{uuid.uuid4().hex[:8]}"
ThoughtId(d, i, u) == [kind |-> "thought", depth |-> d, i |-> i, uuid |-> u]

\* f"fallback_{depth}_{i}"
FallbackId(d, i) == [kind |-> "fallback", depth |-> d, i |-> i, uuid |-> 0]

\* the content of a thought of a reply: a text of the collaborator, told
\* apart by the number u
ReplyContent(d, u) == [label |-> "thought", n |-> u, depth |-> d]

\* f"Fallback approach {i+1} for depth {depth}"
FallbackContent(d, i) == [label |-> "Fallback approach", n |-> i + 1, depth |-> d]

\* action None, and the actions a reply can give a thought: a call of echo,
\* a call of a tool that does not exist, a dict without the key "tool"
NoAction      == [is_dict |-> FALSE, tool |-> "None",         args |-> EmptyDict]
ActEcho       == [is_dict |-> TRUE,  tool |-> "echo",         args |-> [text |-> "str"]]
ActUnknown    == [is_dict |-> TRUE,  tool |-> "no_such_tool", args |-> EmptyDict]
ActNoTool     == [is_dict |-> TRUE,  tool |-> "None",         args |-> EmptyDict]
ThoughtActions == {ActEcho, ActUnknown, ActNoTool}

\* the Thought dataclass
Thought(id, content, d, parent_id, score, action) ==
    [id |-> id, content |-> content, depth |-> d, parent_id |-> parent_id,
     score |-> score, action |-> action, result |-> "None"]

\* the score given when no score can be read from the collaborator
NeutralScore == 5

\* the score a new thought of a reply has before its evaluation
InitialScore == 0

\* the scores a reply of the evaluation collaborator can carry
ReplyScores == {8}

\* replies of the generation collaborator: the call raises; the reply has a
\* bracketed part that json.loads or item.get rejects; the reply has no
\* bracketed part; the reply has an array of n thoughts, the first of which
\* may carry an action
GenReplies(may_act) ==
    {[kind |-> k, n |-> 0, action |-> NoAction] : k \in {"raise", "bad_array", "no_array"}}
      \cup {[kind |-> "array", n |-> n, action |-> a] :
                n \in 1..MaxGen, a \in {NoAction} \cup (IF may_act THEN ThoughtActions ELSE {})}

\* lines 160-169: the list returned by the except branch
FallbackThoughtsNone(d, parent, bf) == <<>>

FallbackThoughts(d, parent, bf) ==
    [k \in 1..bf |->
        Thought(FallbackId(d, k - 1), FallbackContent(d, k - 1), d, parent, NeutralScore, NoAction)]

GenerateThoughtsAsRoots(reply, path, d, bf, u) ==
    IF reply.kind \in {"raise", "bad_array"} THEN FallbackThoughts(d, NoId, bf)
    ELSE IF reply.kind = "no_array" THEN <<>>
    ELSE [k \in 1..reply.n |->
            Thought(ThoughtId(d, k - 1, u + k - 1), ReplyContent(d, u + k - 1), d, NoId,
                    InitialScore, IF k = 1 THEN reply.action ELSE NoAction)]

\* _generate_thoughts(current_state, depth, branching_factor) for a reply of
\* the collaborator; path is the list of thoughts current_state was built
\* from, u the next value of uuid4()
GenerateThoughts(reply, path, d, bf, u) ==
    LET parent == IF path # <<>> THEN path[Len(path)].id ELSE NoId
    IN  IF reply.kind \in {"raise", "bad_array"} THEN FallbackThoughts(d, parent, bf)
        ELSE IF reply.kind = "no_array" THEN <<>>
        ELSE [k \in 1..reply.n |->
                Thought(ThoughtId(d, k - 1, u + k - 1), ReplyContent(d, u + k - 1), d, parent,
                        InitialScore, IF k = 1 THEN reply.action ELSE NoAction)]

\* replies of the evaluation collaborator: the call raises; the reply has
\* no {...} part; its object has no key "score"; the value of "score" is
\* not a number (float() raises); the value is the number score
EvalRepliesOver(scores) ==
    {[kind |-> k, score |-> 0] : k \in {"raise", "no_json", "no_score", "not_number"}}
      \cup {[kind |-> "score", score |-> v] : v \in scores}

EvalReplies == EvalRepliesOver(ReplyScores)

\* numbers a reply can carry as the value of "score" that are below 0.0,
\* inside [0.0, 1.0] and above 1.0 (lines 238-240 accept any JSON number)
AnyScores == {0 - 2, 8, 15}

EvaluateThoughtZero(reply) == IF reply.kind = "score" THEN reply.score ELSE 0

\* _evaluate_thought for a reply of the collaborator
EvaluateThought(reply) == IF reply.kind = "score" THEN reply.score ELSE NeutralScore

\* line 267 and lines 268-269: the strings _execute_thought_action returns
\* when run_tool does o; the string returned by a handler can be empty (the
\* echo of "", the content of an empty file)
ActionResults(o) ==
    IF o.kind = "return" THEN {"tool result", ""} ELSE {"Error executing tool"}

ExecuteThoughtActionUnguarded(thought) ==
    IF ~thought.action.is_dict \/ thought.action.tool = "None"
    THEN {[result |-> "Error: Invalid tool action format", dispatched |-> FALSE]}
    ELSE {[result |-> r, dispatched |-> TRUE] :
              r \in UNION {ActionResults(o) :
                               o \in RunTool(thought.action.tool, thought.action.args)}}

\* _execute_thought_action: the possible values returned; dispatched tells
\* whether run_tool was called
ExecuteThoughtAction(thought) ==
    IF ~thought.action.is_dict THEN {[result |-> "None", dispatched |-> FALSE]}
    ELSE IF thought.action.tool = "None"
    THEN {[result |-> "Error: Invalid tool action format", dispatched |-> FALSE]}
    ELSE {[result |-> r, dispatched |-> TRUE] :
              r \in UNION {ActionResults(o) :
                               o \in RunTool(thought.action.tool, thought.action.args)}}

AttachNever(result) == FALSE

\* line 356, "if result:": neither None nor the empty string
Attach(result) == result \notin {"None", ""}

\* next((t for t in all_thoughts if t.id == parent_id), None): the position
\* of the first thought with that id, 0 for None
FirstWithId(all, id) ==
    IF \E k \in 1..Len(all) : all[k].id = id
    THEN CHOOSE k \in 1..Len(all) : all[k].id = id /\ \A j \in 1..(k - 1) : all[j].id # id
    ELSE 0

ReconstructPathSelf(thought, all) == <<thought>>

\* lines 316-326 and 401-410: the path from a root to thought, by the
\* parent_id chain
RECURSIVE ReconstructPath(_, _)
ReconstructPath(thought, all) ==
    IF thought.parent_id = NoId THEN <<thought>>
    ELSE LET k == FirstWithId(all, thought.parent_id)
         IN  IF k = 0 THEN <<thought>>
             ELSE Append(ReconstructPath(all[k], all), thought)

InsertByScoreBeforeTies(s, t) ==
    LET n == Cardinality({k \in 1..Len(s) : s[k].score > t.score})
    IN  SubSeq(s, 1, n) \o <<t>> \o SubSeq(s, n + 1, Len(s))

\* s with the thought t put after every thought whose score is not lower
InsertByScore(s, t) ==
    LET n == Cardinality({k \in 1..Len(s) : s[k].score >= t.score})
    IN  SubSeq(s, 1, n) \o <<t>> \o SubSeq(s, n + 1, Len(s))

RECURSIVE SortByScoreAsc(_)
SortByScoreAsc(s) ==
    IF s = <<>> THEN <<>>
    ELSE LET r == SortByScoreAsc(SubSeq(s, 1, Len(s) - 1))
             t == s[Len(s)]
             n == Cardinality({k \in 1..Len(r) : r[k].score <= t.score})
         IN  SubSeq(r, 1, n) \o <<t>> \o SubSeq(r, n + 1, Len(r))

\* line 365: evaluated_thoughts.sort(key=lambda x: x[1], reverse=True); the
\* sort is stable: thoughts of equal score keep their order
RECURSIVE SortByScore(_)
SortByScore(s) ==
    IF s = <<>> THEN <<>>
    ELSE InsertByScore(SortByScore(SubSeq(s, 1, Len(s) - 1)), s[Len(s)])

\* current_level_thoughts[:beam_width]
Frontier(level, bw) == Take(level, bw)

\* the answers of _synthesize_answer: the fixed message of line 395, the
\* reply of the collaborator, the string of line 455
NoContent        == [label |-> "None", n |-> 0, depth |-> 0]
NoTotAnswer      == [kind |-> "unset", score |-> 0, content |-> NoContent]
NoThoughtsAnswer == [kind |-> "No thoughts were generated", score |-> 0, content |-> NoContent]
SynthesisReply   == [kind |-> "synthesis reply", score |-> 0, content |-> NoContent]

BestThoughtLast(final) == final[Len(final)]

\* max(final_thoughts, key=lambda t: t.score): the first of the thoughts of
\* the highest score
BestThought(final) ==
    final[CHOOSE k \in 1..Len(final) :
            /\ \A j \in 1..Len(final) : final[j].score <= final[k].score
            /\ \A j \in 1..(k - 1) : final[j].score < final[k].score]

BestPathAnswer(final) ==
    [kind |-> "Best reasoning path", score |-> BestThought(final).score,
     content |-> BestThought(final).content]

NoEval == "none"

\* whether a score was read from the reply
Usable(reply) == IF reply.kind = "score" THEN "usable" ELSE "unusable"

TotIdle ==
    /\ max_depth = 1 /\ branching_factor = 1 /\ beam_width = 1
    /\ tot_pc = "idle"
    /\ depth = 0 /\ expand_idx = 1
    /\ new_thoughts = <<>> /\ evaluated_thoughts = <<>> /\ all_thoughts = <<>>
    /\ current_level_thoughts = <<>> /\ final_thoughts = <<>>
    /\ tot_answer = NoTotAnswer
    /\ uuid_next = 1 /\ actions_given = 0
    /\ last_eval = NoEval
    /\ gen_log = <<>> /\ retained = <<>> /\ tool_dispatches = <<>> /\ synth_calls = <<>>

\* tot_agent is called with max_depth one of depths: lines 293-299
TotInitOver(depths) ==
    /\ max_depth \in depths
    /\ branching_factor \in 1..MaxBranch
    /\ beam_width \in 1..MaxBeam
    /\ tot_pc = "generate"
    /\ depth = 0 /\ expand_idx = 1
    /\ new_thoughts = <<>> /\ evaluated_thoughts = <<>> /\ all_thoughts = <<>>
    /\ current_level_thoughts = <<>> /\ final_thoughts = <<>>
    /\ tot_answer = NoTotAnswer
    /\ uuid_next = 1 /\ actions_given = 0
    /\ last_eval = NoEval
    /\ gen_log = <<>> /\ retained = <<>> /\ tool_dispatches = <<>> /\ synth_calls = <<>>

TotInit == TotInitOver(1..MaxDepth)

\* the position in all of the thought object t (a thought of a level is
\* appended to all_thoughts before the level is sorted)
PosIn(t, all) == CHOOSE k \in 1..Len(all) : all[k] = t

\* the thoughts ts once evaluated, the k-th with the score sc[k] (lines
\* 342-359, for thoughts without action)
ScoredAs(ts, sc) == [k \in 1..Len(ts) |-> [ts[k] EXCEPT !.score = sc[k]]]

\* a search with max_depth DeepDepth, branching_factor 1 and beam_width 2
\* at the head of the loop for depth 2 (line 299), after two levels: at
\* depth 0 the reply held two thoughts, at depth 1 each of the two
\* generation calls either raised (one fallback thought) or returned one
\* thought; every thought was given one of the possible scores
TotInitDeep ==
    \E sc0, sc1 \in [1..2 -> {NeutralScore} \cup ReplyScores] :
    \E kinds \in [1..2 -> {"raise", "array"}] :
        LET Reply(k, n) == [kind |-> k, n |-> n, action |-> NoAction]
            level0  == ScoredAs(GenerateThoughts(Reply("array", 2), <<>>, 0, 1, 1), sc0)
            sorted0 == SortByScore(level0)
            front0  == Frontier(sorted0, 2)
            u2      == IF kinds[1] = "array" THEN 4 ELSE 3
            branch1 == GenerateThoughts(Reply(kinds[1], 1), ReconstructPath(front0[1], level0),
                                        1, 1, 3)
            branch2 == GenerateThoughts(Reply(kinds[2], 1), ReconstructPath(front0[2], level0),
                                        1, 1, u2)
            level1  == ScoredAs(branch1 \o branch2, sc1)
            sorted1 == SortByScore(level1)
        IN  /\ max_depth = DeepDepth /\ branching_factor = 1 /\ beam_width = 2
            /\ tot_pc = "generate"
            /\ depth = 2 /\ expand_idx = 1
            /\ new_thoughts = <<>> /\ evaluated_thoughts = <<>>
            /\ all_thoughts = level0 \o level1
            /\ current_level_thoughts = sorted1
            /\ final_thoughts = <<>>
            /\ tot_answer = NoTotAnswer
            /\ uuid_next = IF kinds[2] = "array" THEN u2 + 1 ELSE u2
            /\ actions_given = 0
            /\ last_eval = IF sc1[2] \in ReplyScores THEN "usable" ELSE "unusable"
            /\ gen_log = <<[depth |-> 0, expanded |-> NoId, parent_pos |-> 0,
                            failed |-> FALSE, n |-> 2],
                           [depth |-> 1, expanded |-> front0[1].id,
                            parent_pos |-> PosIn(front0[1], level0),
                            failed |-> kinds[1] = "raise", n |-> 1],
                           [depth |-> 1, expanded |-> front0[2].id,
                            parent_pos |-> PosIn(front0[2], level0),
                            failed |-> kinds[2] = "raise", n |-> 1]>>
            /\ retained = <<front0, Frontier(sorted1, 2)>>
            /\ tool_dispatches = <<>> /\ synth_calls = <<>>

ExpandedAll == current_level_thoughts

\* the thoughts expanded at the current depth
Expanded == Frontier(current_level_thoughts, beam_width)

\* the generation calls of the current depth are all made
LastExpansion == depth = 0 \/ expand_idx >= Len(Expanded)

AfterGenerationNoBreak(new) == "evaluate"

\* lines 335-338: "if not new_thoughts: break" ends the loop over the
\* depths, and _search_tree returns (lines 373-375)
AfterGeneration(new) == IF new = <<>> THEN "synthesize" ELSE "evaluate"

\* lines 304-338: one call of _generate_thoughts of the level (the only one
\* at depth 0, one per thought of the frontier below); after the last one,
\* "if not new_thoughts: break", which ends the search
TotGenerate ==
    /\ tot_pc = "generate"
    /\ LET path == IF depth = 0 THEN <<>>
                   ELSE ReconstructPath(Expanded[expand_idx], all_thoughts)
       IN  \E reply \in GenReplies(actions_given < MaxActions) :
             LET branch == GenerateThoughts(reply, path, depth, branching_factor, uuid_next)
                 new    == new_thoughts \o branch
             IN  /\ new_thoughts' = new
                 /\ uuid_next' = IF reply.kind = "array" THEN uuid_next + reply.n ELSE uuid_next
                 /\ actions_given' = IF reply.action.is_dict THEN actions_given + 1
                                     ELSE actions_given
                 /\ gen_log' = Append(gen_log,
                                      [depth |-> depth,
                                       expanded |-> IF depth = 0 THEN NoId
                                                    ELSE Expanded[expand_idx].id,
                                       parent_pos |-> IF depth = 0 THEN 0
                                                      ELSE PosIn(Expanded[expand_idx],
                                                                 all_thoughts),
                                       failed |-> reply.kind \in {"raise", "bad_array"},
                                       n |-> Len(branch)])
                 /\ IF ~LastExpansion
                    THEN /\ expand_idx' = expand_idx + 1
                         /\ UNCHANGED <<tot_pc, final_thoughts>>
                    ELSE /\ expand_idx' = 1
                         /\ tot_pc' = AfterGeneration(new)
                         /\ final_thoughts' =
                                IF tot_pc' = "synthesize"
                                THEN Frontier(current_level_thoughts, beam_width)
                                ELSE final_thoughts
    /\ UNCHANGED <<max_depth, branching_factor, beam_width, depth, evaluated_thoughts,
                   all_thoughts, current_level_thoughts, tot_answer, last_eval, retained,
                   tool_dispatches, synth_calls, toolVars, dagVars, extractVars, memVars>>

RecordThoughtSkipFallback(all, thought) ==
    IF thought.id.kind = "fallback" THEN all ELSE Append(all, thought)

\* line 359: all_thoughts.append(thought)
RecordThought(all, thought) == Append(all, thought)

\* lines 341-375: one pass of the loop over new_thoughts: evaluation, the
\* thought's action, all_thoughts.append; after the last thought the level
\* is sorted, and the search goes to the next depth or returns
TotEvaluateOver(replies) ==
    /\ tot_pc = "evaluate"
    /\ new_thoughts # <<>>
    /\ \E reply \in replies : \E x \in ExecuteThoughtAction(Head(new_thoughts)) :
         LET thought == [Head(new_thoughts) EXCEPT
                            !.score  = EvaluateThought(reply),
                            !.result = IF Attach(x.result) THEN x.result ELSE @]
             evaluated == Append(evaluated_thoughts, thought)
             level     == SortByScore(evaluated)
         IN  /\ all_thoughts' = RecordThought(all_thoughts, thought)
             /\ new_thoughts' = Tail(new_thoughts)
             /\ tool_dispatches' = IF x.dispatched
                                   THEN Append(tool_dispatches,
                                               [id |-> thought.id, outcome |-> x.result])
                                   ELSE tool_dispatches
             /\ IF Tail(new_thoughts) # <<>>
                THEN /\ evaluated_thoughts' = evaluated
                     /\ last_eval' = Usable(reply)
                     /\ UNCHANGED <<tot_pc, depth, current_level_thoughts, final_thoughts,
                                    retained>>
                ELSE /\ evaluated_thoughts' = <<>>
                     /\ last_eval' = Usable(reply)
                     /\ current_level_thoughts' = level
                     /\ retained' = Append(retained, Frontier(level, beam_width))
                     /\ depth' = depth + 1
                     /\ IF depth + 1 < max_depth
                        THEN /\ tot_pc' = "generate"
                             /\ UNCHANGED final_thoughts
                        ELSE /\ tot_pc' = "synthesize"
                             /\ final_thoughts' = Frontier(level, beam_width)
    /\ UNCHANGED <<max_depth, branching_factor, beam_width, expand_idx, tot_answer, uuid_next,
                   actions_given, gen_log, synth_calls, toolVars, dagVars, extractVars, memVars>>

TotEvaluate == TotEvaluateOver(EvalReplies)

\* tot_agent lines 557-562: _synthesize_answer(final_thoughts, all_thoughts)
TotSynthesize ==
    /\ tot_pc = "synthesize"
    /\ IF final_thoughts = <<>>
       THEN /\ tot_answer' = NoThoughtsAnswer
            /\ UNCHANGED synth_calls
       ELSE \E ok \in BOOLEAN :
              /\ synth_calls' = Append(synth_calls, ok)
              /\ tot_answer' = IF ok THEN SynthesisReply ELSE BestPathAnswer(final_thoughts)
    /\ tot_pc' = "returned"
    /\ UNCHANGED <<max_depth, branching_factor, beam_width, depth, expand_idx, new_thoughts,
                   evaluated_thoughts, all_thoughts, current_level_thoughts, final_thoughts,
                   uuid_next, actions_given, last_eval, gen_log, retained, tool_dispatches,
                   toolVars, dagVars, extractVars, memVars>>

(***************************************************************************)
(* _extract_plan.  A response of the collaborator is a sequence of tokens  *)
(* separated by white space:                                               *)
(*   "w"   words without bracket or fence                                  *)
(*   "["   "]"   ","   the characters                                      *)
(*   "v"   a JSON value without bracket: a number, {"id": "a"}             *)
(*   "s"   a JSON object that holds an empty array:                        *)
(*         {"id": "a", "dependencies": []}                                 *)
(*   "F"   the opening fence ```json       "E"   the closing fence ```     *)
(***************************************************************************)
Tokens == {"w", "[", "]", ",", "v", "s", "F", "E"}

\* json.loads, as a recursive descent over the tokens: the position after
\* the value that starts at position i, 0 if there is none
RECURSIVE ParseValue(_, _)
RECURSIVE ParseItems(_, _)
ParseValue(t, i) ==
    IF i > Len(t) THEN 0
    ELSE IF t[i] \in {"v", "s"} THEN i + 1
    ELSE IF t[i] = "[" THEN
            IF i + 1 <= Len(t) /\ t[i + 1] = "]" THEN i + 2 ELSE ParseItems(t, i + 1)
    ELSE 0

\* the items of an array from position i to its closing bracket
ParseItems(t, i) ==
    LET j == ParseValue(t, i)
    IN  IF j = 0 \/ j > Len(t) THEN 0
        ELSE IF t[j] = "," THEN ParseItems(t, j + 1)
        ELSE IF t[j] = "]" THEN j + 1
        ELSE 0

\* json.loads(t) does not raise JSONDecodeError
IsJson(t) == ParseValue(t, 1) = Len(t) + 1

\* json.loads(t) is a list
IsJsonList(t) == IsJson(t) /\ t[1] = "["

\* a parsed element of a plan, and the Final step of the fallback plan
Item(kind, text) == [item |-> kind, answer |-> text]

\* the elements of the list json.loads(t), from position i of t
RECURSIVE ListItems(_, _)
ListItems(t, i) ==
    IF t[i] = "]" THEN <<>>
    ELSE LET j == ParseValue(t, i)
             x == Item(IF t[i] = "[" THEN "list" ELSE t[i], <<>>)
         IN  IF t[j] = "," THEN <<x>> \o ListItems(t, j + 1) ELSE <<x>>

JsonList(t) == ListItems(t, 2)

\* the characters "[" and "]" of a token, in order
HasOpen(tok)  == tok \in {"[", "s"}
HasClose(tok) == tok \in {"]", "s"}

\* a match of a pattern: the tokens matched and whether the match ends
\* inside the last token (then only a part of that token is matched)
NoMatch == [found |-> FALSE, text |-> <<>>, whole |-> TRUE]

\* PLAN_PATTERN.search(t), group 1: the leftmost opening fence followed by
\* "[", up to the first "]" that a fence follows
FencedMatch(t) ==
    LET starts == {f \in 1..Len(t) :
                      /\ t[f] = "F"
                      /\ f + 1 <= Len(t) /\ t[f + 1] = "["
                      /\ \E j \in (f + 2)..(Len(t) - 1) : t[j] = "]" /\ t[j + 1] \in {"E", "F"}}
    IN  IF starts = {} THEN NoMatch
        ELSE LET f == CHOOSE x \in starts : \A y \in starts : x <= y
                 ends == {j \in (f + 2)..(Len(t) - 1) : t[j] = "]" /\ t[j + 1] \in {"E", "F"}}
                 j == CHOOSE x \in ends : \A y \in ends : x <= y
             IN  [found |-> TRUE, text |-> SubSeq(t, f + 1, j), whole |-> TRUE]

\* PLAN_PATTERN_SIMPLE.search(t), group 0: from the first "[" to the first
\* "]" after it
SimpleMatch(t) ==
    LET opens == {i \in 1..Len(t) : HasOpen(t[i])}
    IN  IF opens = {} THEN NoMatch
        ELSE LET i == CHOOSE x \in opens : \A y \in opens : x <= y
             IN  IF t[i] = "s" THEN [found |-> TRUE, text |-> <<"[", "]">>, whole |-> TRUE]
                 ELSE LET closes == {j \in (i + 1)..Len(t) : HasClose(t[j])}
                      IN  IF closes = {} THEN NoMatch
                          ELSE LET j == CHOOSE x \in closes : \A y \in closes : x <= y
                               IN  [found |-> TRUE, text |-> SubSeq(t, i, j),
                                    whole |-> t[j] = "]"]

\* "plan = json.loads(...)" followed by "isinstance(plan, list)" on a match
MatchIsList(m) == m.found /\ m.whole /\ IsJsonList(m.text)

FallbackPlanEmpty(text) == <<>>

\* line 90: the plan returned when no attempt gave a list
FallbackPlan(text) == <<Item("final", text)>>

\* _extract_plan(text)
ExtractPlan(text) ==
    IF MatchIsList(FencedMatch(text)) THEN JsonList(FencedMatch(text).text)
    ELSE IF MatchIsList(SimpleMatch(text)) THEN JsonList(SimpleMatch(text).text)
    ELSE IF IsJsonList(text) THEN JsonList(text)
    ELSE FallbackPlan(text)

ExtractIdle ==
    /\ response = <<>>
    /\ extract_pc = "idle"
    /\ extracted = <<>>

\* the responses of at most MaxTokens tokens
ExtractInit ==
    /\ \E n \in 0..MaxTokens : response \in [1..n -> Tokens]
    /\ extract_pc = "call"
    /\ extracted = <<>>

\* one call _extract_plan(response)
ExtractPlanCall ==
    /\ extract_pc = "call"
    /\ extracted' = ExtractPlan(response)
    /\ extract_pc' = "done"
    /\ UNCHANGED <<response, toolVars, dagVars, totVars, memVars>>

(***************************************************************************)
(* MemoryManager (memory.py).  A conversation is told apart by a number: a *)
(* question and its answer; the time of a call is the number of the        *)
(* conversations given so far.                                             *)
(***************************************************************************)
\* s[n:] for n >= 0
Drop(s, n) == IF n < Len(s) THEN SubSeq(s, n + 1, Len(s)) ELSE <<>>

\* lines 153-160: the entry of the conversation c, made at the time ts
MemoryEntry(c, ts) ==
    [timestamp |-> ts, question |-> c, answer |-> c, command |-> "ask", original_count |-> 0]

\* get_content_hash: the md5 of question + answer
ContentHash(m) == <<m.question, m.answer>>

\* line 189: the entries summarized beyond the excess over max_memories
SummaryMargin == 10

\* _summarize_memories as far as the entries can tell: the reply of the
\* collaborator (told apart by -1), or _simple_summary, which gives the
\* number of the entries
SummarizeMemories(old, by_llm) == IF by_llm THEN 0 - 1 ELSE Len(old)

\* lines 196-204: the entry that replaces old; its question is the text
\* "[Summarized Past Conversations]" (0)
SummaryEntry(old, by_llm) ==
    [timestamp |-> old[1].timestamp, question |-> 0, answer |-> SummarizeMemories(old, by_llm),
     command |-> "summary", original_count |-> Len(old)]

\* _manage_memory_size on the list mems
ManageMemorySize(mems, by_llm) ==
    IF ~enable_summarization
    THEN Drop(mems, Len(mems) - max_memories)
    ELSE IF Len(mems) > summary_threshold
    THEN LET num_to_summarize == Len(mems) - max_memories + SummaryMargin
             old_memories     == Take(mems, num_to_summarize)
         IN  <<SummaryEntry(old_memories, by_llm)>> \o Drop(mems, num_to_summarize)
    ELSE mems

\* lines 172-173
AfterAppend(mems, by_llm) ==
    IF Len(mems) > max_memories THEN ManageMemorySize(mems, by_llm) ELSE mems

\* what a call of add_memory did
AddKind(before, appended, after) ==
    IF after = appended THEN "appended"
    ELSE IF after[1].command = "summary" /\ (before = <<>> \/ after[1] # before[1])
    THEN "summarized"
    ELSE "trimmed"

MemIdle ==
    /\ max_memories = 0 /\ enable_summarization = FALSE /\ summary_threshold = 0
    /\ memories = <<>> /\ memory_file = <<>>
    /\ mem_added = 0 /\ last_add = "none"

\* __init__ with no file at memory_path: lines 85-99, 104-105
MemInit ==
    /\ max_memories \in 0..MaxMemories
    /\ enable_summarization \in BOOLEAN
    /\ summary_threshold \in 0..MaxThreshold
    /\ memories = <<>> /\ memory_file = <<>>
    /\ mem_added = 0 /\ last_add = "none"

\* one call of add_memory, for the conversation given last or for a new
\* one; by_llm: the summary is the reply of the collaborator; saved:
\* _save_memories wrote the file (it logs the error otherwise)
AddMemory ==
    \E c \in {mem_added, mem_added + 1} : \E by_llm, saved \in BOOLEAN :
        LET memory == MemoryEntry(c, mem_added + 1)
            existing_hashes == {ContentHash(memories[k]) : k \in 1..Len(memories)}
        IN  /\ c \in 1..MaxAdds
            /\ mem_added' = (IF c > mem_added THEN c ELSE mem_added)
            /\ IF ContentHash(memory) \in existing_hashes
               THEN /\ last_add' = "duplicate"
                    /\ UNCHANGED <<memories, memory_file>>
               ELSE LET appended == Append(memories, memory)
                        after    == AfterAppend(appended, by_llm)
                    IN  /\ memories' = after
                        /\ memory_file' = (IF saved THEN after ELSE memory_file)
                        /\ last_add' = (IF after = <<>> THEN "trimmed"
                                        ELSE AddKind(memories, appended, after))
            /\ UNCHANGED <<max_memories, enable_summarization, summary_threshold,
                           toolVars, dagVars, totVars, extractVars>>

Init == ToolIdle /\ DagInitOver(PlanIdSets, {"planning", "loop"}) /\ TotIdle /\ ExtractIdle /\ MemIdle

Next ==
    \/ AgentPlan
    \/ AgentValidate
    \/ StartRound
    \/ ExitLoop
    \/ \E i \in IdDomain : WorkerRun(i)
    \/ \E i \in IdDomain : Collect(i)
    \/ EndRound
    \/ AgentPhase3

Spec == Init /\ [][Next]_vars

\* tool dispatch on its own: every call of run_tool within the bounds
InitTool == ToolInit /\ DagIdle /\ TotIdle /\ ExtractIdle /\ MemIdle

NextTool == RunToolCall

SpecTool == InitTool /\ [][NextTool]_vars

\* validation and the executor, on the plans of at most two steps, with
\* the fairness of the scheduling: the coordinating thread runs, every pool
\* worker finishes its step, every finished future is yielded
FairIdSets == {s \in PlanIdSets : Cardinality(s) <= 2}

InitFair == ToolIdle /\ DagInitOver(FairIdSets, {"validate", "loop"}) /\ TotIdle /\ ExtractIdle /\ MemIdle

NextFair ==
    \/ AgentValidate
    \/ StartRound
    \/ ExitLoop
    \/ \E i \in IdDomain : WorkerRun(i)
    \/ \E i \in IdDomain : Collect(i)
    \/ EndRound

FairSpec == InitFair /\ [][NextFair]_vars /\ WF_vars(NextFair)

\* one run of tot_agent
InitTot == ToolIdle /\ DagIdle /\ TotInit /\ ExtractIdle /\ MemIdle

NextTot ==
    \/ TotGenerate
    \/ TotEvaluate
    \/ TotSynthesize

SpecTot == InitTot /\ [][NextTot]_vars

\* the last level and the synthesis of a search of three levels
InitDeep == ToolIdle /\ DagIdle /\ TotInitDeep /\ ExtractIdle /\ MemIdle

SpecDeep == InitDeep /\ [][NextTot]_vars

\* one run of tot_agent with max_depth 1, the evaluation collaborator
\* replying with any of the numbers of AnyScores
InitScore == ToolIdle /\ DagIdle /\ TotInitOver({1}) /\ ExtractIdle /\ MemIdle

NextScore ==
    \/ TotGenerate
    \/ TotEvaluateOver(EvalRepliesOver(AnyScores))
    \/ TotSynthesize

SpecScore == InitScore /\ [][NextScore]_vars

\* a MemoryManager on its own: every configuration within the bounds, and
\* the calls of add_memory
InitMemory == ToolIdle /\ DagIdle /\ TotIdle /\ ExtractIdle /\ MemInit

NextMemory == AddMemory

SpecMemory == InitMemory /\ [][NextMemory]_vars

\* _extract_plan on its own: every response within the bound
InitExtract == ToolIdle /\ DagIdle /\ TotIdle /\ ExtractInit /\ MemIdle

NextExtract == ExtractPlanCall

SpecExtract == InitExtract /\ [][NextExtract]_vars

\* one run of either agent, up to its final answer: llm_compiler_agent on
\* the plans of at most two steps, or tot_agent with max_depth 1
InitSynth ==
    \/ ToolIdle /\ DagInitOver(FairIdSets, {"planning"}) /\ TotIdle /\ ExtractIdle /\ MemIdle
    \/ ToolIdle /\ DagIdle /\ TotInitOver({1}) /\ ExtractIdle /\ MemIdle

NextSynth == Next \/ NextTot

SpecSynth == InitSynth /\ [][NextSynth]_vars

(***************************************************************************)
(* The dependency relation of a plan, stated on the plan itself            *)
(***************************************************************************)
\* the dependencies listed by the step with id i
DepsOf(p, i) == UNION {p[k].dependencies : k \in {j \in 1..Len(p) : p[j].id = i}}

RECURSIVE DepsWithin(_, _, _)
\* the ids reached from the set S by following at most n more dependency edges
DepsWithin(p, S, n) ==
    IF n = 0 THEN S ELSE DepsWithin(p, S \cup UNION {DepsOf(p, j) : j \in S}, n - 1)

\* every id the step i depends on, directly or transitively
TransDeps(p, i) == DepsWithin(p, DepsOf(p, i), Cardinality(IdDomain))

AllDepsDefined(p) == \A k \in 1..Len(p) : p[k].dependencies \subseteq StepIds(p)

\* the steps that take part in a dependency cycle
CycleParticipants(p) == {i \in StepIds(p) : i \in TransDeps(p, i)}

Acyclic(p) == CycleParticipants(p) = {}

\* the steps submitted to the pool so far
Dispatched == DOMAIN round_of

NotExecuted(i) == Result("Error: not executed", i, "")

(***************************************************************************)
(* C1  Causal ordering.  For a plan accepted by validation, a step is      *)
(* dispatched, and its result written, only after the result of each of    *)
(* its dependencies has been written: every dispatched step has all its    *)
(* dependencies dispatched in a strictly earlier round, completed and      *)
(* present in the result map.                                              *)
(***************************************************************************)
C1_CausalOrder ==
    plan_valid = "True" =>
        \A i \in Dispatched : \A d \in DepsOf(plan, i) :
            /\ d \in Dispatched
            /\ round_of[d] < round_of[i]
            /\ d \in completed
            /\ d \in DOMAIN results

\* a validated plan in which a step with two dependencies has its result,
\* reached after a round in which two steps ran concurrently
C1_Witness ==
    /\ plan_valid = "True"
    /\ pc = "returned"
    /\ \E i \in completed : Cardinality(DepsOf(plan, i)) = 2 /\ i \in DOMAIN results
    /\ \E i, j \in Dispatched : i # j /\ round_of[i] = round_of[j]

(***************************************************************************)
(* C2  Round barrier.  The loop head is reached only when no future of the *)
(* previous round is outstanding; every step in flight was submitted in    *)
(* the current round, and every step submitted in an earlier round has     *)
(* its result.                                                             *)
(***************************************************************************)
C2_RoundBarrier ==
    /\ pc = "loop" => pending = {} /\ DOMAIN finished = {}
    /\ \A i \in pending \cup DOMAIN finished : i \in Dispatched /\ round_of[i] = round_num
    /\ \A i \in Dispatched : round_of[i] < round_num => i \in DOMAIN results /\ i \in completed

\* round 2 has steps in flight after a round 1 of two steps
C2_Witness ==
    /\ pc = "await"
    /\ round_num = 2
    /\ pending # {}
    /\ Cardinality({i \in Dispatched : round_of[i] = 1}) = 2

(***************************************************************************)
(* C3  Validation accepts every plan whose dependencies are all defined    *)
(* and whose dependency relation has no cycle.                             *)
(***************************************************************************)
C3_ValidAccepted ==
    (plan_valid # "unset" /\ AllDepsDefined(plan) /\ Acyclic(plan)) => plan_valid = "True"

\* a three-step plan with a join (one step depending on two others, one of
\* which depends on the other) has been validated
C3_Witness ==
    /\ plan_valid = "True"
    /\ Len(plan) = 3
    /\ AllDepsDefined(plan) /\ Acyclic(plan)
    /\ \E i, j, k \in StepIds(plan) :
          /\ DepsOf(plan, i) = {j, k}
          /\ DepsOf(plan, j) = {k}

(***************************************************************************)
(* C4  Validation rejects every plan with an undefined dependency or a     *)
(* dependency cycle (self-dependency included).                            *)
(***************************************************************************)
C4_InvalidRejected ==
    (plan_valid # "unset" /\ (~AllDepsDefined(plan) \/ ~Acyclic(plan))) => plan_valid = "False"

(***************************************************************************)
(* C5  As claimed: for a plan with a cycle, the failure surfaced to the    *)
(* caller names exactly the steps that take part in the cycle.             *)
(***************************************************************************)
C5_ReportsCycleIds ==
    (pc = "returned" /\ plan_valid = "False" /\ ~Acyclic(plan)) =>
        answer.ids = CycleParticipants(plan)

(***************************************************************************)
(* C5 as amended: a rejected plan yields only the verdict False; the       *)
(* agent returns at once with the fixed error string, which names no step  *)
(* id, and nothing has been executed.                                      *)
(***************************************************************************)
C5_FixedErrorOnly ==
    plan_valid = "False" =>
        /\ pc = "returned"
        /\ answer = InvalidPlanAnswer
        /\ answer.ids = {}
        /\ Dispatched = {} /\ DOMAIN results = {}

\* a plan with a two-step cycle has been rejected
C5_Witness ==
    /\ plan_valid = "False"
    /\ pc = "returned"
    /\ Cardinality(CycleParticipants(plan)) = 2
    /\ AllDepsDefined(plan)

(***************************************************************************)
(* The executor given a plan with a dependency that no step has            *)
(***************************************************************************)
\* the dependency ids that no step of the plan has
MissingIds(p) == (UNION {p[k].dependencies : k \in 1..Len(p)}) \ StepIds(p)

\* the planning call of the agent raised
PlanningFailed == llm_calls # <<>> /\ ~llm_calls[1].ok

\* the executor was called on the plan (directly, or after validation accepted it)
ExecutorRan ==
    \/ pc \in {"loop", "await", "phase3"}
    \/ (pc = "returned" /\ plan_valid # "False" /\ ~PlanningFailed)

ExecutorReturned == pc \in {"phase3", "returned"} /\ plan_valid # "False" /\ ~PlanningFailed

\* the step i was executed and its outcome recorded
Executed(i) ==
    /\ i \in completed
    /\ i \in DOMAIN results
    /\ results[i].step = i
    /\ results[i].kind \in {"answer", "tool result", "Error: No tool specified",
                             "Error: Unknown tool", "Error executing"}

\* what C6 says of every run on a plan with a missing dependency, except
\* for its last clause
C6_Common ==
    /\ round_num <= 2 * Len(plan)
    /\ pc = "await" => \E i \in Dispatched : round_of[i] = round_num
    /\ \A b \in StepIds(plan) :
          DepsOf(plan, b) \cap MissingIds(plan) # {} =>
            /\ b \notin Dispatched
            /\ ExecutorReturned => b \in DOMAIN results /\ results[b] = NotExecuted(b)

(***************************************************************************)
(* C6  As claimed: on a plan with a missing dependency the loop stops at   *)
(* the first round with an empty ready set, within 2*|steps| rounds; a     *)
(* step with a missing dependency is never dispatched and gets the 'not    *)
(* executed' entry; every step that does not depend, directly or           *)
(* transitively, on a missing id is executed.                              *)
(***************************************************************************)
C6_MissingDepAsClaimed ==
    (ExecutorRan /\ MissingIds(plan) # {}) =>
        /\ C6_Common
        /\ ExecutorReturned =>
              \A i \in StepIds(plan) :
                  TransDeps(plan, i) \cap MissingIds(plan) = {} => Executed(i)

\* the safety part of C6 as amended
C6_MissingDepSafety ==
    (ExecutorRan /\ MissingIds(plan) # {}) =>
        /\ C6_Common
        /\ ExecutorReturned =>
              \A i \in StepIds(plan) :
                  (/\ TransDeps(plan, i) \cap MissingIds(plan) = {}
                   /\ TransDeps(plan, i) \cap CycleParticipants(plan) = {}) => Executed(i)

(***************************************************************************)
(* C6 as amended: the same, the last clause being: every step that depends *)
(* (directly or transitively) neither on a missing id nor on a step of a   *)
(* dependency cycle is executed; and the run always returns.               *)
(***************************************************************************)
C6_MissingDep ==
    /\ []C6_MissingDepSafety
    /\ (ExecutorRan /\ MissingIds(plan) # {}) ~> ExecutorReturned

\* the executor has returned in its second round, the first with an empty
\* ready set: one step depends on a missing id and has the 'not executed'
\* entry, the other step was executed in round 1
C6_Witness ==
    /\ ExecutorReturned
    /\ round_num = 2
    /\ \E b, i \in StepIds(plan) :
          /\ DepsOf(plan, b) \cap MissingIds(plan) # {}
          /\ b \in DOMAIN results /\ results[b] = NotExecuted(b)
          /\ i # b /\ i \in Dispatched /\ round_of[i] = 1 /\ Executed(i)

(***************************************************************************)
(* C7  When the executor has returned, the result map has exactly one      *)
(* entry per step of the plan: the outcome of executing the step if it     *)
(* completed, the 'not executed' error otherwise.                          *)
(***************************************************************************)
C7_EveryStepHasEntry ==
    ExecutorReturned =>
        /\ DOMAIN results = StepIds(plan)
        /\ \A i \in StepIds(plan) :
              i \in DOMAIN results /\
              IF i \in completed THEN Executed(i) ELSE results[i] = NotExecuted(i)

\* the executor has returned a map with an executed and a not executed step
C7_Witness ==
    /\ ExecutorReturned
    /\ \E i, j \in StepIds(plan) :
          /\ i \in DOMAIN results /\ j \in DOMAIN results
          /\ Executed(i)
          /\ results[j] = NotExecuted(j)

(***************************************************************************)
(* C8  A failing tool dispatch (no or unknown tool, invalid arguments, a   *)
(* handler that raises) is recorded as the step's result and the step is   *)
(* completed; at every round boundary every submitted step has recorded    *)
(* its result; when the executor returns, every step whose dependencies    *)
(* completed (failed or not) has been executed.                            *)
(***************************************************************************)
\* the dispatch of this step cannot succeed
MustFail(step) ==
    /\ step.action # "final"
    /\ \/ step.tool \notin ToolNames
       \/ \E k \in TOOLS[step.tool].required :
            k \notin (DOMAIN step.args) \cup (DOMAIN TOOLS[step.tool].defaults)

C8_FailureIsData ==
    ExecutorRan =>
        /\ \A i \in completed :
              /\ Executed(i)
              /\ MustFail(StepMap(plan)[i]) => IsErrorResult(results[i])
        /\ \A i \in DOMAIN results : IsErrorResult(results[i]) => i \in completed
        /\ pc \in {"loop", "returned"} => \A i \in Dispatched : Executed(i)
        /\ pc = "returned" =>
              \A i \in StepIds(plan) : DepsOf(plan, i) \subseteq completed => Executed(i)

\* a step failed in the handler, a sibling of the same round failed in
\* validation, a third sibling succeeded, or a dependent of a failed step
\* ran in a later round
C8_Witness ==
    /\ ExecutorReturned
    /\ \E f, g, d \in completed :
          /\ f # g
          /\ results[f].kind = "Error executing" /\ results[f].detail = "handler"
          /\ round_of[g] = round_of[f]
          /\ results[g].kind \in {"Error: Unknown tool", "Error executing"}
          /\ f \in DepsOf(plan, d)
          /\ round_of[d] > round_of[f]
          /\ ~IsErrorResult(results[d])

(***************************************************************************)
(* Tool dispatch, stated on the registry                                   *)
(***************************************************************************)
\* the arguments after merging the supplied ones over the defaults
MergedArgs == DictMerge(TOOLS[tool_name].defaults, kwargs)

\* supplied keys not declared, and required keys absent after the merge
NameViolations ==
    ((DOMAIN kwargs) \ TOOLS[tool_name].args)
        \cup (TOOLS[tool_name].required \ DOMAIN MergedArgs)

\* present keys whose value does not have the declared type
Mistyped ==
    {k \in (DOMAIN MergedArgs) \cap (DOMAIN TOOLS[tool_name].arg_types) :
        ~IsInstance(MergedArgs[k], TOOLS[tool_name].arg_types[k])}

(***************************************************************************)
(* C9  A handler is invoked only for a registered tool, with every         *)
(* required argument present, no undeclared key, and every present value   *)
(* of its declared type.                                                   *)
(***************************************************************************)
C9_HandlerOnlyIfValid ==
    (rt_pc = "done" /\ (rt_outcome.invoked \/ handler_calls # <<>>)) =>
        /\ tool_name \in ToolNames
        /\ NameViolations = {}
        /\ Mistyped = {}

(***************************************************************************)
(* C10  The checks are made in the order name, argument names, argument    *)
(* types, and the first violated one decides the error: unknown tool;      *)
(* else the error listing exactly the undeclared and the missing keys;     *)
(* else the type error listing exactly the mistyped keys.                  *)
(***************************************************************************)
C10_FirstViolatedCheck ==
    rt_pc = "done" =>
        IF tool_name \notin ToolNames
        THEN rt_outcome.kind = "ValueError" /\ rt_outcome.msg = "Unknown tool"
        ELSE IF NameViolations # {}
        THEN /\ rt_outcome.kind = "ValueError"
             /\ rt_outcome.msg = "Invalid or missing arguments"
             /\ rt_outcome.keys = NameViolations
        ELSE IF Mistyped # {}
        THEN /\ rt_outcome.kind = "ValueError"
             /\ rt_outcome.msg = "Invalid argument types"
             /\ rt_outcome.keys = Mistyped
        ELSE rt_outcome.kind \in {"return", "raise"}

(***************************************************************************)
(* C11  As claimed: when the arguments pass validation, run_tool always    *)
(* returns a string; a failure raised by the handler is converted into a   *)
(* result string and never reaches the caller.                             *)
(***************************************************************************)
C11_NeverPropagates ==
    (rt_pc = "done" /\ tool_name \in ToolNames /\ NameViolations = {} /\ Mistyped = {}) =>
        rt_outcome.kind = "return"

\* the three messages of the errors run_tool raises itself
ValidationFailures ==
    {"Unknown tool", "Invalid or missing arguments", "Invalid argument types"}

(***************************************************************************)
(* C11 as amended: when the arguments pass validation, run_tool calls the  *)
(* handler once and hands its outcome to the caller unchanged: the string  *)
(* it returns, or the exception it raises, which propagates out of         *)
(* run_tool; the errors run_tool raises itself, before any handler call,   *)
(* are the three validation failures.                                      *)
(***************************************************************************)
C11_HandlerOutcomeUnchanged ==
    rt_pc = "done" =>
        /\ (tool_name \in ToolNames /\ NameViolations = {} /\ Mistyped = {}) =>
              /\ rt_outcome.invoked
              /\ Len(handler_calls) = 1
        /\ rt_outcome.invoked =>
              /\ rt_outcome.handler \in {"return", "raise"}
              /\ rt_outcome.kind = rt_outcome.handler
        /\ ~rt_outcome.invoked =>
              /\ rt_outcome.kind = "ValueError"
              /\ rt_outcome.msg \in ValidationFailures
              /\ handler_calls = <<>>

\* read_file was called with a path of type str and nothing else, the
\* handler raised (say, open() was refused), and run_tool raised with it
C11_Witness ==
    /\ rt_pc = "done"
    /\ tool_name = "read_file"
    /\ NameViolations = {} /\ Mistyped = {}
    /\ rt_outcome.invoked
    /\ rt_outcome.handler = "raise"
    /\ rt_outcome.kind = "raise"

(***************************************************************************)
(* The beam search, stated on its thoughts                                 *)
(***************************************************************************)
\* the positions, in all_thoughts, of the thoughts of depth d
LevelOf(d) == {k \in 1..Len(all_thoughts) : all_thoughts[k].depth = d}

\* the thoughts of depth d retained as the frontier (none if the search
\* never finished a level of that depth)
RetainedAt(d) == IF d + 1 <= Len(retained) THEN retained[d + 1] ELSE <<>>

\* the level of depth d is over: the search went past it, or ended
LevelOver(d) == d < depth \/ tot_pc \in {"synthesize", "returned"}

InSeq(t, s) == \E k \in 1..Len(s) : s[k] = t

MinOf(a, b) == IF a < b THEN a ELSE b

(***************************************************************************)
(* C12  At every depth of the beam search, once the level is over, the     *)
(* number of thoughts retained as the frontier is min(beam_width, number   *)
(* of thoughts generated at that depth), the retained thoughts are         *)
(* thoughts of that depth, and the score of every retained thought is >=   *)
(* the score of every thought of that depth that is discarded; the         *)
(* thoughts expanded at the next depth are the retained ones.              *)
(***************************************************************************)
C12_BeamRetainsBest ==
    /\ \A d \in 0..(MaxDepth - 1) :
          LevelOver(d) =>
            /\ Len(RetainedAt(d)) = MinOf(beam_width, Cardinality(LevelOf(d)))
            /\ \A k \in 1..Len(RetainedAt(d)) :
                  /\ RetainedAt(d)[k].depth = d
                  /\ InSeq(RetainedAt(d)[k], all_thoughts)
            /\ \A j \in LevelOf(d) :
                  ~InSeq(all_thoughts[j], RetainedAt(d)) =>
                      \A k \in 1..Len(RetainedAt(d)) :
                          RetainedAt(d)[k].score >= all_thoughts[j].score
    /\ (tot_pc = "generate" /\ depth > 0) => Expanded = RetainedAt(depth - 1)

\* a search in which a level of three thoughts was cut to a beam of two,
\* the discarded thought having a lower score than a retained one, and in
\* which the next level had fewer thoughts than the beam is wide
C12_Witness ==
    /\ tot_pc = "returned"
    /\ beam_width = 2
    /\ Cardinality(LevelOf(0)) = 3
    /\ Len(RetainedAt(0)) = 2
    /\ \E j \in LevelOf(0) :
          /\ ~InSeq(all_thoughts[j], RetainedAt(0))
          /\ all_thoughts[j].score < RetainedAt(0)[1].score
    /\ Cardinality(LevelOf(1)) = 1
    /\ Len(RetainedAt(1)) = 1

(***************************************************************************)
(* C13  With max_depth = 2, branching_factor = 3, beam_width = 1 and a     *)
(* generation collaborator that never fails and gives three thoughts at    *)
(* each call, the search retains exactly one thought at each depth, and    *)
(* the path reconstructed for the final thought has length 2: the          *)
(* retained thought of depth 0 followed by its child of depth 1.           *)
(***************************************************************************)
C13_OnePerDepthPathOfTwo ==
    (/\ tot_pc \in {"synthesize", "returned"}
     /\ max_depth = 2 /\ branching_factor = 3 /\ beam_width = 1
     /\ \A c \in 1..Len(gen_log) : ~gen_log[c].failed /\ gen_log[c].n = 3) =>
        /\ Len(retained) = 2
        /\ Len(retained[1]) = 1 /\ Len(retained[2]) = 1
        /\ final_thoughts = retained[2]
        /\ LET path == ReconstructPath(final_thoughts[1], all_thoughts)
           IN  /\ Len(path) = 2
               /\ path[1] = retained[1][1]
               /\ path[1].depth = 0
               /\ path[2] = final_thoughts[1]
               /\ path[2].depth = 1
               /\ path[2].parent_id = path[1].id

\* such a search has returned: two generation calls of three thoughts, the
\* retained thought of depth 0 not being the first generated
C13_Witness ==
    /\ tot_pc = "returned"
    /\ max_depth = 2 /\ branching_factor = 3 /\ beam_width = 1
    /\ Len(gen_log) = 2
    /\ \A c \in 1..Len(gen_log) : ~gen_log[c].failed /\ gen_log[c].n = 3
    /\ Len(all_thoughts) = 6
    /\ Len(final_thoughts) = 1
    /\ retained[1][1] # all_thoughts[1]
    /\ Len(ReconstructPath(final_thoughts[1], all_thoughts)) = 2

(***************************************************************************)
(* C14  As claimed: for every text that is not JSON, _extract_plan returns *)
(* the plan of one element, a Final step whose answer is the text.         *)
(***************************************************************************)
C14_FreeTextFallsBack ==
    (extract_pc = "done" /\ ~IsJson(response)) =>
        extracted = <<Item("final", response)>>

\* one of the three attempts of _extract_plan finds a JSON array in the text
ArrayFound(t) ==
    \/ MatchIsList(FencedMatch(t))
    \/ MatchIsList(SimpleMatch(t))
    \/ IsJsonList(t)

(***************************************************************************)
(* C14 as amended: _extract_plan returns the plan of one element, a Final  *)
(* step whose answer is the text, exactly for the texts in which no        *)
(* attempt finds a JSON array: not the bracketed part of a ```json block,  *)
(* not the part from the first "[" to the first "]" after it, not the      *)
(* whole text.  For any other text, free text included, it returns the     *)
(* array found.                                                            *)
(***************************************************************************)
C14_FallbackIffNoArray ==
    extract_pc = "done" =>
        /\ ~ArrayFound(response) => extracted = <<Item("final", response)>>
        /\ ArrayFound(response) =>
              /\ extracted # <<Item("final", response)>>
              /\ \A k \in 1..Len(extracted) : extracted[k].item \in {"v", "s", "list"}

\* free text with a bracketed part that is no JSON array ("see [note]
\* here") has been given the fallback plan
C14_Witness ==
    /\ extract_pc = "done"
    /\ response = <<"w", "[", "w", "]", "w">>
    /\ ~IsJson(response)
    /\ extracted = <<Item("final", response)>>

(***************************************************************************)
(* C15  For every text, _extract_plan returns a plan that is not empty.    *)
(***************************************************************************)
C15_PlanNotEmpty ==
    extract_pc = "done" => Len(extracted) >= 1

(***************************************************************************)
(* The generation calls of a beam search and the thoughts they returned    *)
(***************************************************************************)
\* every thought created so far, in the order of creation
Created == all_thoughts \o new_thoughts

RECURSIVE ReturnedBefore(_)
\* the number of thoughts returned by the generation calls before call c
ReturnedBefore(c) == IF c = 1 THEN 0 ELSE ReturnedBefore(c - 1) + gen_log[c - 1].n

\* the thoughts returned by the generation call c
ThoughtsOfCall(c) ==
    SubSeq(Created, ReturnedBefore(c) + 1, ReturnedBefore(c) + gen_log[c].n)

\* the thought at position k of Created has been evaluated
Evaluated(k) == k <= Len(all_thoughts)

(***************************************************************************)
(* C16  When a generation call fails, _generate_thoughts returns exactly   *)
(* branching_factor placeholder thoughts, labelled 'Fallback approach' and *)
(* with a fallback id, at the depth asked for, with the expanded thought   *)
(* as parent, without action and with the score 0.5 (until the search      *)
(* evaluates them); the search goes on with them: each of them is          *)
(* evaluated and recorded with the other thoughts of its level.            *)
(***************************************************************************)
C16_FallbackThoughts ==
    /\ \A c \in 1..Len(gen_log) :
          gen_log[c].failed =>
            /\ gen_log[c].n = branching_factor
            /\ Len(ThoughtsOfCall(c)) = branching_factor
            /\ \A k \in 1..gen_log[c].n :
                  LET t == ThoughtsOfCall(c)[k]
                  IN  /\ t.id = [kind |-> "fallback", depth |-> gen_log[c].depth,
                                 i |-> k - 1, uuid |-> 0]
                      /\ t.content = [label |-> "Fallback approach", n |-> k,
                                      depth |-> gen_log[c].depth]
                      /\ t.depth = gen_log[c].depth
                      /\ t.parent_id = gen_log[c].expanded
                      /\ t.action = NoAction
                      /\ ~Evaluated(ReturnedBefore(c) + k) => t.score = 5
    /\ tot_pc \in {"synthesize", "returned"} => new_thoughts = <<>>

\* the generation call for a retained thought of depth 0 failed, with
\* branching_factor 2, and one of its two placeholders is in the final
\* frontier
C16_Witness ==
    /\ tot_pc = "returned"
    /\ branching_factor = 2
    /\ \E c \in 1..Len(gen_log) :
          /\ gen_log[c].failed
          /\ gen_log[c].depth = 1
          /\ gen_log[c].expanded # NoId
          /\ \E k \in 1..Len(final_thoughts) :
                /\ final_thoughts[k].id.kind = "fallback"
                /\ final_thoughts[k].parent_id = gen_log[c].expanded

(***************************************************************************)
(* C17  When the evaluation call for a thought fails, or no score can be   *)
(* read from its reply, the thought gets the score 0.5 and the search goes *)
(* on: the thought is recorded, the remaining thoughts of the level are    *)
(* still to be evaluated, no thought is dropped.                           *)
(***************************************************************************)
C17_NeutralScoreOnFailure ==
    /\ last_eval = "unusable" =>
          /\ all_thoughts # <<>>
          /\ all_thoughts[Len(all_thoughts)].score = 5
          /\ tot_pc \in {"generate", "evaluate", "synthesize", "returned"}
          /\ tot_pc = "evaluate" => new_thoughts # <<>>
    /\ Len(Created) = ReturnedBefore(Len(gen_log) + 1)
    /\ tot_pc \in {"synthesize", "returned"} => Len(all_thoughts) = ReturnedBefore(Len(gen_log) + 1)

\* the evaluation of the first of two thoughts of depth 0 failed; the
\* second one is still to be evaluated
C17_Witness ==
    /\ tot_pc = "evaluate"
    /\ last_eval = "unusable"
    /\ depth = 0
    /\ Len(all_thoughts) = 1
    /\ all_thoughts[1].id.kind = "thought"
    /\ all_thoughts[1].score = 5
    /\ Len(new_thoughts) = 1

(***************************************************************************)
(* C18  As claimed: when the planning call fails, the run of               *)
(* llm_compiler_agent does not abort: a plan (the fallback plan) is        *)
(* validated and the answer comes from its Final step.                     *)
(***************************************************************************)
C18_PlanningFailureDegrades ==
    (pc = "returned" /\ PlanningFailed) =>
        /\ plan_valid = "True"
        /\ answer.text = "base answer"

(***************************************************************************)
(* C18 as amended: when the planning call fails, llm_compiler_agent        *)
(* returns at once the string 'Error: Failed to get plan from LLM: ...':   *)
(* no plan is extracted or validated, no step is executed, no other call   *)
(* to the collaborator is made.                                            *)
(***************************************************************************)
C18_PlanningFailureReturnsError ==
    PlanningFailed =>
        /\ pc = "returned"
        /\ answer = [text |-> "Error: Failed to get plan from LLM", ids |-> {}, base |-> "None"]
        /\ plan_valid = "unset"
        /\ Dispatched = {} /\ DOMAIN results = {} /\ round_num = 0
        /\ Len(llm_calls) = 1

\* the planning call failed for a response that would have held a valid
\* plan of two steps
C18_Witness ==
    /\ pc = "returned"
    /\ PlanningFailed
    /\ Len(plan) = 2 /\ AllDepsDefined(plan) /\ Acyclic(plan)
    /\ answer.text = "Error: Failed to get plan from LLM"

(***************************************************************************)
(* The synthesis call of the two agents                                    *)
(***************************************************************************)
\* the synthesis call of llm_compiler_agent raised
DagSynthesisFailed ==
    \E k \in 1..Len(llm_calls) : llm_calls[k].purpose = "synthesis" /\ ~llm_calls[k].ok

\* the synthesis call of _synthesize_answer raised
TotSynthesisFailed == \E k \in 1..Len(synth_calls) : ~synth_calls[k]

(***************************************************************************)
(* C19  As claimed: when the synthesis call fails, the run is aborted and  *)
(* the failure is what the caller gets, in llm_compiler_agent and in       *)
(* tot_agent; no answer is assembled from the partial results.             *)
(***************************************************************************)
C19_SynthesisFailureAborts ==
    /\ (pc = "returned" /\ DagSynthesisFailed) =>
          answer.text = "synthesis error" /\ answer.ids = {} /\ answer.base = "None"
    /\ (tot_pc = "returned" /\ TotSynthesisFailed) =>
          tot_answer.kind = "synthesis error" /\ tot_answer.content = NoContent

(***************************************************************************)
(* C19 as amended: when the synthesis call fails the run is not aborted    *)
(* and the answer is assembled from the partial results.                   *)
(* llm_compiler_agent returns the answer of the first Final step followed  *)
(* by 'Tool Results:' and the results of all the other steps, or, for a    *)
(* plan without Final step, 'Tool execution completed but failed to        *)
(* generate final answer: ...' followed by all the results; tot_agent      *)
(* returns the 'Best reasoning path' string of a thought of its final      *)
(* frontier.                                                               *)
(***************************************************************************)
C19_SynthesisFailureFallsBack ==
    /\ DagSynthesisFailed =>
          /\ pc = "returned"
          /\ plan_valid = "True"
          /\ DOMAIN results = StepIds(plan)
          /\ IF \E k \in 1..Len(plan) : plan[k].action = "final"
             THEN LET f == CHOOSE k \in 1..Len(plan) :
                               /\ plan[k].action = "final"
                               /\ \A j \in 1..(k - 1) : plan[j].action # "final"
                  IN  /\ answer.text = "base answer + Tool Results"
                      /\ answer.base = plan[f].id
                      /\ answer.ids = StepIds(plan) \ {plan[f].id}
                      /\ answer.ids # {}
             ELSE /\ answer.text = "Tool execution completed but failed to generate final answer"
                  /\ answer.base = "None"
                  /\ answer.ids = StepIds(plan)
    /\ TotSynthesisFailed =>
          /\ tot_pc = "returned"
          /\ final_thoughts # <<>>
          /\ tot_answer.kind = "Best reasoning path"
          /\ \E k \in 1..Len(final_thoughts) :
                /\ tot_answer.content = final_thoughts[k].content
                /\ tot_answer.score = final_thoughts[k].score

\* the synthesis call of llm_compiler_agent failed after a plan of a tool
\* step and a Final step that depends on it was executed
C19_Witness ==
    /\ pc = "returned"
    /\ DagSynthesisFailed
    /\ Len(plan) = 2
    /\ \E i, f \in StepIds(plan) :
          /\ i # f
          /\ DepsOf(plan, f) = {i}
          /\ i \in DOMAIN results /\ results[i].kind = "tool result"
          /\ answer.base = f
          /\ answer.ids = {i}

(***************************************************************************)
(* C20  When _synthesize_answer is given an empty final frontier it        *)
(* returns the fixed 'No thoughts were generated' message without calling  *)
(* the collaborator; otherwise it makes one synthesis call, and when that  *)
(* call fails it returns the 'Best reasoning path' string with the score   *)
(* and the content of a thought of the final frontier that has the highest *)
(* score.                                                                  *)
(***************************************************************************)
C20_BestPathOrNoThoughts ==
    tot_pc = "returned" =>
        IF final_thoughts = <<>>
        THEN /\ tot_answer.kind = "No thoughts were generated"
             /\ synth_calls = <<>>
        ELSE /\ Len(synth_calls) = 1
             /\ ~synth_calls[1] =>
                   /\ tot_answer.kind = "Best reasoning path"
                   /\ \E k \in 1..Len(final_thoughts) :
                         /\ \A j \in 1..Len(final_thoughts) :
                               final_thoughts[j].score <= final_thoughts[k].score
                         /\ tot_answer.score = final_thoughts[k].score
                         /\ tot_answer.content = final_thoughts[k].content

\* the synthesis call failed for a final frontier of two thoughts of
\* different scores
C20_Witness ==
    /\ tot_pc = "returned"
    /\ Len(final_thoughts) = 2
    /\ final_thoughts[1].score # final_thoughts[2].score
    /\ synth_calls = <<FALSE>>
    /\ tot_answer.kind = "Best reasoning path"

(***************************************************************************)
(* The phases of a run of llm_compiler_agent                               *)
(***************************************************************************)
\* a run of the agent (not a direct call of the executor)
AgentRun == llm_calls # <<>>

\* the agent has returned without calling _execute_plan_parallel
ExecutionSkipped == AgentRun /\ pc = "returned" /\ round_num = 0

\* no step was dispatched, no worker ran, nothing was recorded
NothingExecuted ==
    /\ Dispatched = {} /\ pending = {} /\ DOMAIN finished = {}
    /\ completed = {} /\ DOMAIN results = {}

\* a synthesis call was made
SynthesisCalled == \E k \in 1..Len(llm_calls) : llm_calls[k].purpose = "synthesis"

\* what C21 says of a plan that fails validation
C21_InvalidPlanStops ==
    plan_valid = "False" =>
        /\ pc = "returned"
        /\ answer = [text |-> "Error: Generated plan is invalid", ids |-> {}, base |-> "None"]
        /\ NothingExecuted
        /\ ~SynthesisCalled

FinalOnly(p) == \A k \in 1..Len(p) : p[k].action = "final"

(***************************************************************************)
(* C22  When the plan has no tool step (a Final-only plan), a run of       *)
(* llm_compiler_agent on it returns the literal answer of the Final step   *)
(* and makes no synthesis call: the planning call is the only call to the  *)
(* collaborator.                                                           *)
(***************************************************************************)
C22_FinalOnlySkipsSynthesis ==
    (AgentRun /\ pc = "returned" /\ plan_valid = "True" /\ FinalOnly(plan)) =>
        /\ answer.text = "base answer"
        /\ answer.base = plan[1].id
        /\ Len(llm_calls) = 1

\* the largest round number of the steps of ids (0 when ids is empty)
MaxRound(ids) ==
    IF ids = {} THEN 0
    ELSE CHOOSE r \in {round_of[j] : j \in ids} : \A j \in ids : round_of[j] <= r

\* the plan of the end-to-end example: two echo steps in a chain and a
\* Final step depending on the second one (the Final step has the id "c")
ExamplePlan ==
    <<MkStep("a", {}, CallEcho), MkStep("b", {"a"}, CallEcho), MkStep("c", {"b"}, CallFinal)>>

(***************************************************************************)
(* C23  The executor runs each step in the round numbered 1 + the largest  *)
(* round number of its dependencies (round 1 for a step without            *)
(* dependencies).  For the plan a (echo), b (echo, depends on a), Final    *)
(* (depends on b): a runs in round 1, b in round 2, and the agent makes a  *)
(* synthesis call whose input holds the results of a and of b, with the    *)
(* answer of the Final step as draft.                                      *)
(***************************************************************************)
C23_RoundOfLongestChain ==
    /\ \A i \in Dispatched :
          /\ StepMap(plan)[i].dependencies \subseteq Dispatched
          /\ round_of[i] = 1 + MaxRound(StepMap(plan)[i].dependencies)
    /\ plan = ExamplePlan =>
          /\ "a" \in Dispatched => round_of["a"] = 1
          /\ "b" \in Dispatched => round_of["b"] = 2
          /\ (AgentRun /\ pc = "returned" /\ plan_valid = "True") =>
                /\ Dispatched = {"a", "b", "c"}
                /\ results["a"] = Result("tool result", "a", "")
                /\ results["b"] = Result("tool result", "b", "")
                /\ results["c"] = Result("answer", "c", "")
                /\ Len(llm_calls) = 2
                /\ llm_calls[2].purpose = "synthesis"
                /\ llm_calls[2].ids = {"a", "b"}
                /\ llm_calls[2].base = "c"

\* the run on the plan of the example has returned the reply of the
\* synthesis call, after three rounds
C23_Witness ==
    /\ plan = ExamplePlan
    /\ AgentRun /\ pc = "returned" /\ plan_valid = "True"
    /\ round_of["a"] = 1 /\ round_of["b"] = 2 /\ round_of["c"] = 3
    /\ Len(llm_calls) = 2 /\ llm_calls[2].ok
    /\ answer.text = "synthesis reply"

\* the state of the result map: every entry is an outcome of its own step,
\* written once; between two rounds the map holds exactly the steps
\* dispatched so far
C24_ResultMapState ==
    /\ DOMAIN result_writes = DOMAIN results
    /\ \A i \in DOMAIN results :
          /\ result_writes[i] = 1
          /\ results[i].step = i
          /\ \/ i \in Dispatched /\ results[i] \in ExecuteStep(StepMap(plan)[i])
             \/ i \notin Dispatched /\ results[i] = NotExecuted(i)
    /\ pc = "loop" => DOMAIN results = Dispatched /\ completed = Dispatched
    /\ pc = "await" =>
          \A i \in Dispatched :
              (i \in DOMAIN results) <=> (i \notin pending /\ i \notin DOMAIN finished)

\* a step of a worker (a future finishes): the result map, the completed
\* set and the write counts are not touched, and only the future of the
\* worker's own step changes
C24_WorkerStep ==
    (pc = "await" /\ pending' # pending) =>
        /\ results' = results /\ completed' = completed /\ result_writes' = result_writes
        /\ \E i \in pending :
              /\ pending' = pending \ {i}
              /\ DOMAIN finished' = (DOMAIN finished) \cup {i}
              /\ finished'[i] \in ExecuteStep(StepMap(plan)[i])
              /\ \A j \in DOMAIN finished : finished'[j] = finished[j]

(***************************************************************************)
(* C24  Within a round the result map does not depend on the order in      *)
(* which the concurrent steps complete: for every completion order each    *)
(* step dispatched gets the entry that is the outcome of executing that    *)
(* step alone; each entry is written once, by the coordinating thread (the *)
(* loop over as_completed); a worker neither reads nor writes the result   *)
(* map.                                                                    *)
(***************************************************************************)
C24_OrderIndependentResults ==
    /\ []C24_ResultMapState
    /\ [][C24_WorkerStep]_vars

\* three steps run in one round; the one submitted last has completed and
\* has its entry, the first one is still running, the second has finished
\* and is not yet collected
C24_Witness ==
    /\ pc = "await"
    /\ round_num = 1
    /\ Dispatched = {"a", "b", "c"}
    /\ "a" \in pending
    /\ "b" \in DOMAIN finished
    /\ DOMAIN results = {"c"} /\ result_writes["c"] = 1

(***************************************************************************)
(* C25  A step with the action 'final' resolves to its literal answer and  *)
(* never reaches run_tool, whatever other fields it carries (a tool name,  *)
(* arguments, dependencies) and whichever round it runs in.                *)
(***************************************************************************)
C25_FinalNeverDispatchesTool ==
    /\ \A i \in StepIds(plan) :
          StepMap(plan)[i].action = "final" =>
            /\ i \notin run_tool_calls
            /\ i \in DOMAIN finished => finished[i] = Result("answer", i, "")
            /\ (i \in Dispatched /\ i \in DOMAIN results) => results[i] = Result("answer", i, "")
    /\ \A i \in run_tool_calls :
          /\ i \in Dispatched
          /\ StepMap(plan)[i].action # "final"
          /\ StepMap(plan)[i].tool \in ToolNames

\* a Final step that names the tool read_file ran in round 2, after a
\* read_file step that did call run_tool, and resolved to its answer
C25_Witness ==
    /\ pc \in {"phase3", "returned"}
    /\ \E i, f \in StepIds(plan) :
          /\ i # f
          /\ StepMap(plan)[f].action = "final" /\ StepMap(plan)[f].tool = "read_file"
          /\ StepMap(plan)[f].dependencies = {i}
          /\ f \in Dispatched /\ round_of[f] = 2
          /\ results[f] = Result("answer", f, "")
          /\ i \in run_tool_calls /\ f \notin run_tool_calls

\* the position of the thought t in all_thoughts: the thoughts of a level
\* are appended in the order of their generation
Pos(t) == CHOOSE k \in 1..Len(all_thoughts) : all_thoughts[k] = t

\* the thoughts of s that have equal scores are in the order of generation
TiesInGenerationOrder(s) ==
    \A p, q \in 1..Len(s) :
        (p < q /\ s[p].score = s[q].score) => Pos(s[p]) < Pos(s[q])

(***************************************************************************)
(* C26  The thoughts of a level that have equal scores keep their order of *)
(* generation when the level is sorted: in the sorted level and in the     *)
(* retained frontier ties are in generation order, and a thought of the    *)
(* level that is discarded while a thought of the same score is retained   *)
(* was generated after it.                                                 *)
(***************************************************************************)
C26_TiesKeepGenerationOrder ==
    /\ \A k \in 1..Len(current_level_thoughts) : InSeq(current_level_thoughts[k], all_thoughts)
    /\ TiesInGenerationOrder(current_level_thoughts)
    /\ \A d \in 0..(MaxDepth - 1) :
          LevelOver(d) =>
            /\ TiesInGenerationOrder(RetainedAt(d))
            /\ \A j \in LevelOf(d) : \A k \in 1..Len(RetainedAt(d)) :
                  (/\ ~InSeq(all_thoughts[j], RetainedAt(d))
                   /\ all_thoughts[j].score = RetainedAt(d)[k].score) =>
                      Pos(RetainedAt(d)[k]) < j

\* three thoughts of depth 0 with the same score and a beam of two: the
\* first two generated are retained, the third is discarded
C26_Witness ==
    /\ beam_width = 2
    /\ Cardinality(LevelOf(0)) = 3
    /\ LevelOver(0)
    /\ all_thoughts[1].score = all_thoughts[2].score
    /\ all_thoughts[2].score = all_thoughts[3].score
    /\ RetainedAt(0) = <<all_thoughts[1], all_thoughts[2]>>

\* the generation calls made at depth d, as positions of gen_log, in order
CallsAt(d) ==
    SelectSeq([k \in 1..Len(gen_log) |-> k], LAMBDA k : gen_log[k].depth = d)

\* every generation call of depth d has been made
GenerationDone(d) ==
    /\ d < max_depth
    /\ depth > d \/ (depth = d /\ tot_pc # "generate")

(***************************************************************************)
(* C27  At a depth d > 0 the generation calls expand, in order, the        *)
(* thoughts retained at depth d-1 (the top beam_width by score) and no     *)
(* other: the j-th call expands the j-th retained thought, every thought   *)
(* it returns has the depth d and that thought's id as parent_id, and once *)
(* the calls of depth d are made their number is min(beam_width, number of *)
(* thoughts of depth d-1).                                                 *)
(***************************************************************************)
C27_OnlyRetainedExpanded ==
    /\ \A d \in 1..(MaxDepth - 1) :
          /\ Len(CallsAt(d)) <= Len(RetainedAt(d - 1))
          /\ \A j \in 1..Len(CallsAt(d)) :
                j <= Len(RetainedAt(d - 1)) =>
                  LET c == CallsAt(d)[j]
                  IN  /\ gen_log[c].expanded = RetainedAt(d - 1)[j].id
                      /\ \A k \in 1..gen_log[c].n :
                            /\ ThoughtsOfCall(c)[k].depth = d
                            /\ ThoughtsOfCall(c)[k].parent_id = RetainedAt(d - 1)[j].id
          /\ GenerationDone(d) =>
                Len(CallsAt(d)) = MinOf(beam_width, Cardinality(LevelOf(d - 1)))
    /\ \A k \in 1..Len(Created) :
          IF Created[k].depth = 0 THEN Created[k].parent_id = NoId
          ELSE \E j \in 1..Len(RetainedAt(Created[k].depth - 1)) :
                  Created[k].parent_id = RetainedAt(Created[k].depth - 1)[j].id
    /\ Len(CallsAt(0)) <= 1

\* three thoughts at depth 0 and a beam of two: two generation calls were
\* made at depth 1, both retained thoughts have a child, and the discarded
\* thought has none
C27_Witness ==
    /\ tot_pc = "returned"
    /\ beam_width = 2
    /\ Cardinality(LevelOf(0)) = 3
    /\ Len(CallsAt(1)) = 2
    /\ \A j \in 1..2 : \E k \in LevelOf(1) : all_thoughts[k].parent_id = RetainedAt(0)[j].id
    /\ \E j \in LevelOf(0) :
          /\ ~InSeq(all_thoughts[j], RetainedAt(0))
          /\ \A k \in LevelOf(1) : all_thoughts[k].parent_id # all_thoughts[j].id

\* the generation calls of depth d are made and none returned a thought
NothingGeneratedAt(d) ==
    /\ GenerationDone(d)
    /\ \A j \in 1..Len(CallsAt(d)) : gen_log[CallsAt(d)[j]].n = 0

(***************************************************************************)
(* C28  If no thought is generated at a depth d, the search stops at that  *)
(* depth and _search_tree returns: no generation call, no evaluation and   *)
(* no tool call is made for a deeper level (nor at depth d), and the final *)
(* frontier is the frontier retained at depth d-1, empty when d = 0; the   *)
(* run then returns an answer.                                             *)
(***************************************************************************)
C28_EmptyLevelStopsSearch ==
    \A d \in 0..(MaxDepth - 1) :
        NothingGeneratedAt(d) =>
            /\ tot_pc \in {"synthesize", "returned"}
            /\ depth = d
            /\ new_thoughts = <<>>
            /\ \A c \in 1..Len(gen_log) : gen_log[c].depth <= d
            /\ \A k \in 1..Len(all_thoughts) : all_thoughts[k].depth < d
            /\ \A k \in 1..Len(tool_dispatches) : tool_dispatches[k].id.depth < d
            /\ Len(retained) = d
            /\ final_thoughts = (IF d = 0 THEN <<>> ELSE retained[d])
            /\ tot_pc = "returned" =>
                  tot_answer.kind \in {"No thoughts were generated", "synthesis reply",
                                       "Best reasoning path"}

\* the two generation calls of depth 1 returned nothing, after a level of
\* depth 0 in which a thought had its tool action dispatched: the search
\* has returned the two thoughts retained at depth 0
C28_Witness ==
    /\ tot_pc = "returned"
    /\ max_depth = 2 /\ depth = 1
    /\ NothingGeneratedAt(1)
    /\ Len(CallsAt(1)) = 2
    /\ Len(final_thoughts) = 2
    /\ final_thoughts = retained[1]
    /\ tool_dispatches # <<>>

\* what a thought is, apart from the score and the result it is given when
\* it is evaluated
Core(t) == [id |-> t.id, parent_id |-> t.parent_id, content |-> t.content,
            depth |-> t.depth, action |-> t.action]

\* every thought returned by a generation call so far is in all_thoughts,
\* or is a thought of the current level that is still to be evaluated, in
\* the order of generation and without repetition (the lengths add up);
\* when the search has returned every thought generated is in
\* all_thoughts, and so is every thought of the frontier
C29_AllRecordedOnce ==
    /\ Len(all_thoughts) + Len(new_thoughts) = ReturnedBefore(Len(gen_log) + 1)
    /\ \A c \in 1..Len(gen_log) : \A k \in 1..gen_log[c].n :
          /\ ThoughtsOfCall(c)[k].depth = gen_log[c].depth
          /\ ThoughtsOfCall(c)[k].parent_id = gen_log[c].expanded
          /\ (ThoughtsOfCall(c)[k].id.kind = "fallback") <=> gen_log[c].failed
    /\ tot_pc \in {"synthesize", "returned"} =>
          /\ Len(all_thoughts) = ReturnedBefore(Len(gen_log) + 1)
          /\ \A k \in 1..Len(final_thoughts) : InSeq(final_thoughts[k], all_thoughts)
    /\ \A d \in 0..(MaxDepth - 1) : \A k \in 1..Len(RetainedAt(d)) :
          InSeq(RetainedAt(d)[k], all_thoughts)

\* a step of the search leaves the thoughts recorded as they are and
\* records at most one more, the first of the thoughts to be evaluated
C29_OnlyGrows ==
    /\ Len(all_thoughts') \in {Len(all_thoughts), Len(all_thoughts) + 1}
    /\ SubSeq(all_thoughts', 1, Len(all_thoughts)) = all_thoughts
    /\ Len(all_thoughts') = Len(all_thoughts) + 1 =>
          /\ new_thoughts # <<>>
          /\ Core(all_thoughts'[Len(all_thoughts')]) = Core(Head(new_thoughts))
          /\ new_thoughts' = Tail(new_thoughts)

(***************************************************************************)
(* C29  Every thought generated during a run of the beam search, retained  *)
(* or discarded, is recorded exactly once in all_thoughts (when it is      *)
(* evaluated); all_thoughts only grows; every thought of the final         *)
(* frontier is in all_thoughts.                                            *)
(***************************************************************************)
C29_FullThoughtSet ==
    /\ []C29_AllRecordedOnce
    /\ [][C29_OnlyGrows]_vars

\* a run has returned with six thoughts recorded, three of depth 0 and
\* three of depth 1; at each depth the beam of two discarded one of them
C29_Witness ==
    /\ tot_pc = "returned"
    /\ beam_width = 2
    /\ Cardinality(LevelOf(0)) = 3
    /\ Cardinality(LevelOf(1)) = 3
    /\ Len(all_thoughts) = 6
    /\ Len(final_thoughts) = 2
    /\ \E j \in LevelOf(0) : ~InSeq(all_thoughts[j], RetainedAt(0))
    /\ \E j \in LevelOf(1) : ~InSeq(all_thoughts[j], final_thoughts)

\* the generation call that returned the thought at position k of
\* all_thoughts
CallOf(k) ==
    CHOOSE c \in 1..Len(gen_log) :
        ReturnedBefore(c) < k /\ k <= ReturnedBefore(c) + gen_log[c].n

\* the thoughts from a root to the thought at position k of all_thoughts,
\* each followed by a thought generated by its expansion
RECURSIVE Ancestry(_)
Ancestry(k) ==
    LET pp == gen_log[CallOf(k)].parent_pos
    IN  IF pp = 0 THEN <<all_thoughts[k]>>
        ELSE Append(Ancestry(pp), all_thoughts[k])

\* the thought t is told apart from every other thought recorded
Distinct(t) == Cardinality({k \in 1..Len(all_thoughts) : all_thoughts[k] = t}) = 1

(***************************************************************************)
(* C30  For every thought t of the final frontier, the walk along the      *)
(* parent_id chain made by _synthesize_answer ends at a root and gives the *)
(* path root ... t of length depth(t) + 1, in which each element is the    *)
(* thought whose expansion generated the next one.                         *)
(***************************************************************************)
C30_PathIsAncestry ==
    tot_pc \in {"synthesize", "returned"} =>
        \A j \in 1..Len(final_thoughts) :
            LET t    == final_thoughts[j]
                path == ReconstructPath(t, all_thoughts)
            IN  /\ Len(path) = t.depth + 1
                /\ path[Len(path)] = t
                /\ path[1].parent_id = NoId
                /\ \A k \in 1..Len(path) : path[k].depth = k - 1
                /\ Distinct(t) => path = Ancestry(PosIn(t, all_thoughts))

(***************************************************************************)
(* C31  The ids of the thoughts created in one run of the beam search are  *)
(* pairwise distinct, the fallback thoughts created when the generation    *)
(* fails for several expanded thoughts of the same level included.         *)
(***************************************************************************)
C31_IdsDistinct ==
    \A p, q \in 1..Len(Created) : p # q => Created[p].id # Created[q].id

\* the scores 0.0 and 1.0, in tenths
LowestScore == 0
HighestScore == 10

(***************************************************************************)
(* C32  Every thought recorded by a run of the beam search has, once it    *)
(* has been evaluated, a score between 0.0 and 1.0, whatever the           *)
(* evaluation collaborator replies.                                        *)
(***************************************************************************)
C32_ScoreInUnitInterval ==
    \A k \in 1..Len(all_thoughts) :
        LowestScore <= all_thoughts[k].score /\ all_thoughts[k].score <= HighestScore

(***************************************************************************)
(* C33  In every run of the beam search each root thought (parent_id None) *)
(* has depth 0, and every other thought has the depth of its parent plus   *)
(* one, the parent being a thought recorded earlier in the same run: the   *)
(* thought whose expansion generated it bears the id parent_id, and every  *)
(* thought recorded earlier under that id has the depth just below.        *)
(***************************************************************************)
C33_DepthIsParentDepthPlusOne ==
    \A k \in 1..Len(all_thoughts) :
        LET t  == all_thoughts[k]
            pp == gen_log[CallOf(k)].parent_pos
        IN  IF t.parent_id = NoId
            THEN t.depth = 0 /\ pp = 0
            ELSE /\ pp \in 1..(k - 1)
                 /\ all_thoughts[pp].id = t.parent_id
                 /\ \A j \in 1..Len(all_thoughts) :
                        all_thoughts[j].id = t.parent_id =>
                            j < k /\ t.depth = all_thoughts[j].depth + 1

\* a run has returned after recording thoughts of depth 0 and of depth 1,
\* a fallback thought among those of depth 1
C33_Witness ==
    /\ tot_pc = "returned"
    /\ \E k \in 1..Len(all_thoughts) :
          all_thoughts[k].depth = 1 /\ all_thoughts[k].id.kind = "thought"
    /\ \E k \in 1..Len(all_thoughts) :
          all_thoughts[k].depth = 1 /\ all_thoughts[k].id.kind = "fallback"

\* the positions in all_thoughts of the thoughts that carry an action
WithAction == {k \in 1..Len(all_thoughts) : all_thoughts[k].action.is_dict}

DispatchesOf(k) ==
    {d \in 1..Len(tool_dispatches) : tool_dispatches[d].id = all_thoughts[k].id}

C36_ValidPlanFullyExecuted ==
    (plan_valid = "True" /\ ExecutorRan) =>
        /\ (pc = "loop" /\ Cardinality(completed) < Cardinality(DOMAIN StepMap(plan))) =>
              ReadySteps # {}
        /\ pc = "loop" => Cardinality(completed) >= round_num
        /\ round_num <= Len(plan)
        /\ ExecutorReturned =>
              \A i \in StepIds(plan) : Executed(i) /\ results[i] # NotExecuted(i)

\* a step with a recorded result is not ready, not submitted and not
\* running, and no entry has been written twice
C37_RecordedStepsAtRest ==
    /\ ReadySteps \cap DOMAIN results = {}
    /\ pc = "loop" => ReadySteps \cap Dispatched = {}
    /\ (pending \cup DOMAIN finished) \cap DOMAIN results = {}
    /\ (pending \cup DOMAIN finished) \subseteq Dispatched
    /\ \A i \in DOMAIN result_writes : result_writes[i] = 1

\* a step of the executor: a step dispatched keeps the round of its
\* dispatch, the steps submitted were never dispatched before, and an
\* entry of the result map keeps its value
C37_NoSecondDispatch ==
    /\ \A i \in Dispatched : i \in DOMAIN round_of' /\ round_of'[i] = round_of[i]
    /\ (pending' \ pending) \cap Dispatched = {}
    /\ \A i \in DOMAIN results : i \in DOMAIN results' /\ results'[i] = results[i]

(***************************************************************************)
(* C37  In one run of the executor every step is dispatched at most once:  *)
(* a step whose result has been recorded is never put in a later ready     *)
(* set, and its recorded result is never overwritten, in any round and     *)
(* any completion order.                                                   *)
(***************************************************************************)
C37_DispatchedAtMostOnce ==
    /\ []C37_RecordedStepsAtRest
    /\ [][C37_NoSecondDispatch]_vars

\* the third round of a chain of three steps is about to start: the first
\* two steps have their results and only the last one is ready
C37_Witness ==
    /\ pc = "loop"
    /\ round_num = 2
    /\ Len(plan) = 3
    /\ Cardinality(DOMAIN results) = 2
    /\ Cardinality(ReadySteps) = 1
    /\ \E i \in ReadySteps : \E j \in DOMAIN results :
          j \in DepsOf(plan, i) /\ round_of[j] = 2

(***************************************************************************)
(* C38  After any sequence of calls of add_memory on a MemoryManager, for  *)
(* any max_memories, enable_summarization and summary_threshold, the       *)
(* number of stored memories is at most max_memories each time add_memory  *)
(* has returned.                                                           *)
(***************************************************************************)
C38_AtMostMaxMemories == Len(memories) <= max_memories

====
